---------------------------- MODULE Spec2Model ----------------------------
(***************************************************************************)
(* Stream lifecycle managers of go-ensign (package stream): the Publisher  *)
(* (src/stream/publisher.go) and the Subscriber (src/unnamed/part_020).    *)
(* One manager instance is modelled; kind says which of the two it is.     *)
(* The goroutines are the lifecycle loop (start), the receive loops        *)
(* (receiver), the application's callers of Publish / Ack / Nack, the      *)
(* callers of Close and, for a Subscriber, the consumer of the events      *)
(* channel.  The gRPC stream and the Ensign server behind it are the       *)
(* environment.                                                            *)
(***************************************************************************)
EXTENDS Integers, Sequences, FiniteSets, TLC

(***************************************************************************)
(* Bounds of the model.                                                    *)
(***************************************************************************)
\* streams a manager opens in one run (the first one included)
MaxStreams == 2
\* Publish calls (or Ack and Nack calls) in one run
MaxPublish == 2
\* replies (acks, nacks) or events the server sends in one run
MaxReplies == 2
\* the scaled capacity of the events channel (see EventsCap)
MaxBuffer == 1
\* calls of Ack and Nack the application's goroutines make on one event
MaxCalls == 5
\* events a query's stream carries at most
MaxEvents == 2

\* the application goroutines calling Publish (or Ack / Nack): each makes one
\* call, and as they are interchangeable they start in their order
Callers == 1..MaxPublish
\* the application goroutines calling Close
Closers == {"k1"}

(***************************************************************************)
(* Program constants.                                                      *)
(***************************************************************************)
\* stream.BufferSize, the capacity of the Subscriber's events channel
BufferSize == 128
\* ulid.EncodedSize of github.com/oklog/ulid/v2, the length of a text ULID
EncodedSize == 26

Min(a, b) == IF a < b THEN a ELSE b

\* make(chan *api.EventWrapper, BufferSize), scaled to the model's bound
EventsCap == Min(BufferSize, MaxBuffer)

\* the nil error, the nil stream, the nil channel
Nil == ""
NoStream == 0
NoChan == 0

ErrStreamUninitialized == "ErrStreamUninitialized"
ErrReconnect == "ErrReconnect"
ErrResolveTopic == "ErrResolveTopic"
\* errors of the collaborators: the transport, the status the server ends a
\* stream with when it rejects the handshake, and proto.Marshal
ErrTransport == "transport error"
ErrStatus == "server status error"
ErrMarshal == "marshal error"
\* errors of the event: errors.go, and the NackError of makeNackError
ErrCannotAck == "ErrCannotAck"
ErrOverwrite == "ErrOverwrite"
NackError == "nack error"

(***************************************************************************)
(* ulid.Parse (oklog/ulid v2, the non-strict parser used by resolveTopic): *)
(* a string of the wrong length is ErrDataSize, a first byte above '7' is  *)
(* ErrOverflow, anything else decodes digit by digit with Crockford's      *)
(* base32 table, upper and lower case alike.  A ULID is kept as its 26     *)
(* five-bit digits.                                                        *)
(***************************************************************************)
Char(s, i) == SubSeq(s, i, i)

CrockfordUpper == "0123456789ABCDEFGHJKMNPQRSTVWXYZ"
CrockfordLower == "0123456789abcdefghjkmnpqrstvwxyz"

\* bytes that are not above '7' among those the model's strings use
NotAboveSeven == {"0", "1", "2", "3", "4", "5", "6", "7", ".", "-"}

dec(ch) ==
    IF \E i \in 1..32 : Char(CrockfordUpper, i) = ch
    THEN (CHOOSE i \in 1..32 : Char(CrockfordUpper, i) = ch) - 1
    ELSE IF \E i \in 1..32 : Char(CrockfordLower, i) = ch
         THEN (CHOOSE i \in 1..32 : Char(CrockfordLower, i) = ch) - 1
         ELSE 255

ZeroULID == [i \in 1..EncodedSize |-> 0]

ulidParse(s) ==
    IF Len(s) # EncodedSize
    THEN [err |-> "ErrDataSize", id |-> ZeroULID]
    ELSE IF Char(s, 1) \notin NotAboveSeven
         THEN [err |-> "ErrOverflow", id |-> ZeroULID]
         ELSE [err |-> Nil, id |-> [i \in 1..EncodedSize |-> dec(Char(s, i))]]

MustParse(s) == ulidParse(s).id

(***************************************************************************)
(* The fixtures of the tests: topic names and ids, and the topic maps a    *)
(* StreamReady reply can carry.  The bytes of a map entry are either the   *)
(* binary form of a ULID or something UnmarshalBinary rejects.             *)
(***************************************************************************)
TopicA == "01H1PA4FA9G2Y79Z5FC36CWYYJ"
TopicB == "01H1PA4P7C6VT5KZCXH56H1XHS"
TopicC == "01H1PPYFQM8ZNXXPH6JJF2BEDN"

Bytes(id) == [valid |-> TRUE, id |-> id]
BadBytes == [valid |-> FALSE, id |-> ZeroULID]

ReadyTopics ==
    { [n \in {"testing.123", "example.456"} |->
          IF n = "testing.123" THEN Bytes(MustParse(TopicA))
          ELSE Bytes(MustParse(TopicB))],
      [n \in {"testing.123", TopicC, "broken"} |->
          IF n = "testing.123" THEN Bytes(MustParse(TopicB))
          ELSE IF n = TopicC THEN Bytes(MustParse(TopicA)) ELSE BadBytes] }

\* the StreamReady reply of the first handshake
FirstReady ==
    CHOOSE r \in ReadyTopics : "example.456" \in DOMAIN r

\* the topic strings callers pass to Publish
TopicInputs == {"testing.123", "notatopic", TopicC, "8ZZZZZZZZZZZZZZZZZZZZZZZZZ"}

\* the events callers pass to Publish: one that marshals, one that does not
EventInputs == {"event", "unmarshalable"}

VARIABLES
    kind,       \* "pub": a Publisher, "sub": a Subscriber
    stream,     \* p.stream: the current stream handle, NoStream when nil
    nstreams,   \* streams opened so far
    net,        \* the transport and server side of the current stream
    topics,     \* p.topics
    smuR,       \* p.smu: the number of read locks held
    smuW,       \* p.smu: a writer (openStream) waits for or holds the lock
    stop,       \* p.stop: signals buffered in the channel (capacity 1)
    down,       \* p.down: signals buffered in the channel (capacity 1)
    wg,         \* p.wg: the wait group's counter
    fatal,      \* p.fatal
    startpc,    \* where the start goroutine is
    recvs,      \* the receiver goroutines, in the order they were started
    pending,    \* p.pending: local id -> reply channel
    chans,      \* the reply channels made by Publish
    call,       \* the callers of Publish / Ack / Nack
    closer,     \* the callers of Close
    events,     \* c.events: the Subscriber's events channel
    panicked,   \* the panic that ended the process, Nil when none
    nextID,     \* the next local id ulid.Make() returns
    nsent,      \* messages the server has sent after the handshake
    early,      \* history: ids whose reply was handled before registration
    fulfilled,  \* history: how often the receive loop fulfilled each id
    handled,    \* history: how many replies for each id the loop has handled
    built,      \* history: how the constructor's handshake ended, its error
    hist,       \* history: events read, put on c.events and consumed; acks
                \* and nacks the broker got
    ev,         \* an Event of the application: its fields and the history of
                \* the calls on it
    subscription, \* c.subscription: the message a Subscriber opens its
                \* streams with
    handler,    \* ensign.Subscription: its eventHandler goroutine and its
                \* channel C
    pmu,        \* p.pmu: the goroutine that holds the pending map's lock
    cursor,     \* a QueryCursor: its stream, its cached result, and the
                \* history of what its calls returned
    cache       \* a topics.Cache: its map (pairs of name and id), and the
                \* history of the remote calls made and of its calls

vars ==
    <<kind, stream, nstreams, net, topics, smuR, smuW, stop, down, wg, fatal,
      startpc, recvs, pending, chans, call, closer, events, panicked, nextID,
      nsent, early, fulfilled, handled, built, hist, ev, subscription,
      handler, pmu, cursor, cache>>

IDs == 1..MaxPublish

(***************************************************************************)
(* The state after NewPublisher / NewSubscriber returned without error:    *)
(* openStream succeeded on the first stream, the wait group counts the     *)
(* start goroutine, which has not run yet.  NewSubscriber's openStream has *)
(* returned, so its deferred cancel() has cancelled the context the first  *)
(* stream was opened with.                                                 *)
(***************************************************************************)
\* a faulty openStream that updates the topic map it has entry by entry
\* instead of making a new one
C27_Mut_TopicMap(ready) ==
    [n \in DOMAIN topics \cup {m \in DOMAIN ready : ready[m].valid} |->
        IF n \in DOMAIN ready /\ ready[n].valid THEN ready[n].id
        ELSE topics[n]]

\* the topic map openStream builds from a StreamReady reply
TopicMap(ready) ==
    [n \in {m \in DOMAIN ready : ready[m].valid} |-> ready[n].id]

NewStream(st) ==
    [st |-> st, half |-> FALSE, eof |-> FALSE, ready |-> TRUE,
     out |-> <<>>, got |-> <<>>]

\* history: the events read, put on c.events and consumed, the acks and
\* nacks the broker got, and the handshake messages the manager has sent
NoHistory ==
    [read |-> <<>>, put |-> <<>>, got |-> <<>>, acks |-> <<>>, opens |-> <<>>]

\* the topic lists the application passes to NewSubscriber
TopicLists == {<<"testing.123">>, <<"testing.123", "example.456">>}

\* a Publisher has no subscription
NoSubscription == [clientID |-> "", topics |-> <<>>]

\* &api.Subscription{ClientId: ulid.Make().String(), Topics: topics}, made
\* once by NewSubscriber
NewSubscription(topiclist) == [clientID |-> "sub", topics |-> topiclist]

\* the subscription of the manager the model starts with
FirstSubscription(k) ==
    IF k = "sub"
    THEN NewSubscription(CHOOSE t \in TopicLists : Len(t) = 2)
    ELSE NoSubscription

\* a faulty handshake that makes its client id anew for every stream
C26_Mut_Handshake(n) ==
    [clientID |-> IF n = 1 THEN "sub" ELSE "open" \o ToString(n),
     topics |-> subscription.topics]

\* the handshake message openStream sends on the n-th stream: a Subscriber
\* sends c.subscription; a Publisher sends an OpenStream whose client id is
\* made by ulid.Make() in that call
Handshake(n) ==
    IF kind = "sub"
    THEN subscription
    ELSE [clientID |-> "open" \o ToString(n), topics |-> <<>>]

\* the Subscription Client.Subscribe returns: C is made with capacity 1, the
\* eventHandler goroutine is about to range over the events channel; got is
\* the history of the events the application took from C
NewHandler ==
    [pc |-> "range", hold |-> <<>>, C |-> <<>>, closed |-> FALSE, got |-> <<>>]

\* nobody holds the lock
NoHolder == <<>>

\* no Ack or Nack has been called on the event
NoCall ==
    [seq |-> 0, op |-> "", from |-> "", origin |-> "", hadsub |-> FALSE,
     ret |-> "", err |-> Nil]

\* history: the last call of Acked or Nacked on the event and what it
\* returned
NoPoll == [seq |-> 0, op |-> "", ret |-> FALSE]

\* &Event{}: the zero value of the internal fields (state initialized, no
\* error, no reply channel, no acknowledger), with the history of the event:
\* how the application got it, the acks and nacks sent upstream for it, the
\* first Ack or Nack that committed, the last call of Ack or Nack, the last
\* call of Acked or Nacked and which of the two have returned true; mu is
\* e.mu: the caller that holds it, 0 when it is free
NewEvent ==
    [state |-> "initialized", err |-> Nil, pub |-> "nil", sub |-> FALSE,
     origin |-> "local", sent |-> <<>>, term |-> "", last |-> NoCall,
     poll |-> NoPoll, polled |-> {}, mu |-> 0]

IdleCall ==
    [pc |-> "idle", op |-> "", topic |-> "", event |-> "", topicID |-> ZeroULID,
     localID |-> 0, reply |-> NoChan, err |-> Nil, fatalAt |-> Nil,
     sent |-> FALSE]

Init ==
    /\ kind \in {"pub", "sub"}
    /\ stream = 1
    /\ nstreams = 1
    /\ net = NewStream(IF kind = "pub" THEN "open" ELSE "canceled")
    /\ topics = TopicMap(FirstReady)
    /\ smuR = 0
    /\ smuW = FALSE
    /\ stop = 0
    /\ down = 0
    /\ wg = 1
    /\ fatal = Nil
    /\ startpc = "begin"
    /\ recvs = <<>>
    /\ pending = [i \in IDs |-> NoChan]
    /\ chans = <<>>
    /\ call = [c \in Callers |-> IdleCall]
    /\ closer = [k \in Closers |-> [pc |-> "idle", ret |-> Nil]]
    /\ events = [buf |-> <<>>, closed |-> FALSE]
    /\ panicked = Nil
    /\ nextID = 1
    /\ nsent = 0
    /\ early = {}
    /\ fulfilled = [i \in IDs |-> 0]
    /\ handled = [i \in IDs |-> 0]
    /\ built = [how |-> "ready", err |-> Nil]
    /\ subscription = FirstSubscription(kind)
    /\ hist = [NoHistory EXCEPT
                  !.opens = <<[sent |-> TRUE, msg |-> Handshake(1),
                               err |-> Nil, ready |-> FirstReady]>>]
    /\ ev = NewEvent
    /\ handler = NewHandler
    /\ pmu = NoHolder
    /\ cursor = [pc |-> "none", stream |-> <<>>, open |-> FALSE, result |-> 0,
                 n |-> 0, got |-> <<>>, log |-> <<>>]
    /\ cache = [topics |-> {}, rpcs |-> <<>>, log |-> <<>>]

\* a panic in any goroutine ends the process
Running == panicked = Nil

\* the constructor has returned a manager
Built == startpc \notin {"new", "newcancel", "failed"}

\* sync.RWMutex: RLock blocks while a writer waits for or holds the lock
CanRLock == ~smuW

(***************************************************************************)
(* The stream as the client sees it.                                       *)
(***************************************************************************)
\* Send succeeds on an open stream that neither side has closed
SendOK == net.st = "open" /\ ~net.half /\ ~net.eof

\* what a Recv call that returns now can return
RecvResults ==
    (IF net.out # <<>> THEN {[err |-> Nil, msg |-> Head(net.out)]} ELSE {})
    \cup (IF net.st # "open" THEN {[err |-> ErrTransport, msg |-> <<>>]} ELSE {})
    \cup (IF net.st = "open" /\ net.eof /\ net.out = <<>>
          THEN {[err |-> "EOF", msg |-> <<>>]} ELSE {})

(***************************************************************************)
(* The start goroutine (Publisher.start, Subscriber.start): the lifecycle  *)
(* loop.  The two managers' loops are the same code line for line; where   *)
(* openStream differs, kind decides.                                       *)
(***************************************************************************)
NewReceiver == [pc |-> "loop", in |-> <<>>]

\* a faulty lifecycle loop that launches two receive loops on the first
\* stream
C38_Mut_start_begin ==
    /\ Running
    /\ startpc = "begin"
    /\ wg' = wg + 2
    /\ recvs' = recvs \o <<NewReceiver, NewReceiver>>
    /\ startpc' = "select"
    /\ UNCHANGED <<kind, stream, nstreams, net, topics, smuR, smuW, stop, down,
                   fatal, pending, chans, call, closer, events, panicked,
                   nextID, nsent, early, fulfilled, handled,
                   built, subscription, handler, pmu, ev, hist, cursor, cache>>

\* p.wg.Add(1); go p.receiver(), before the loop
start_begin ==
    /\ Running
    /\ startpc = "begin"
    /\ wg' = wg + 1
    /\ recvs' = Append(recvs, NewReceiver)
    /\ startpc' = "select"
    /\ UNCHANGED <<kind, stream, nstreams, net, topics, smuR, smuW, stop, down,
                   fatal, pending, chans, call, closer, events, panicked,
                   nextID, nsent, early, fulfilled, handled,
                   built, subscription, handler, pmu, ev, hist, cursor, cache>>

\* a faulty lifecycle loop that goes to reconnect on a down signal without
\* taking the signal out of the channel
C30_Mut_start_down ==
    /\ Running
    /\ startpc = "select"
    /\ down = 1
    /\ startpc' = "reconnect"
    /\ UNCHANGED <<kind, stream, nstreams, net, topics, smuR, smuW, stop, wg,
                   fatal, recvs, pending, chans, call, closer, events,
                   panicked, nextID, nsent, early, fulfilled, handled,
                   built, subscription, handler, pmu, ev, hist, down,
                   cursor, cache>>

\* select: case <-p.down
start_down ==
    /\ Running
    /\ startpc = "select"
    /\ down = 1
    /\ down' = 0
    /\ startpc' = "reconnect"
    /\ UNCHANGED <<kind, stream, nstreams, net, topics, smuR, smuW, stop, wg,
                   fatal, recvs, pending, chans, call, closer, events,
                   panicked, nextID, nsent, early, fulfilled, handled,
                   built, subscription, handler, pmu, ev, hist, cursor, cache>>

\* select: case <-p.stop: return (the deferred wg.Done runs)
start_stop ==
    /\ Running
    /\ startpc = "select"
    /\ stop = 1
    /\ stop' = 0
    /\ wg' = wg - 1
    /\ startpc' = "done"
    /\ UNCHANGED <<kind, stream, nstreams, net, topics, smuR, smuW, down,
                   fatal, recvs, pending, chans, call, closer, events,
                   panicked, nextID, nsent, early, fulfilled, handled,
                   built, subscription, handler, pmu, ev, hist, cursor, cache>>

\* a faulty reconnect step: the return after setFatal is missing and the
\* loop goes on selecting
C7_Mut_start_reconnect(ok) ==
    /\ Running
    /\ startpc = "reconnect"
    /\ IF ok
       THEN /\ nstreams < MaxStreams
            /\ smuW' = TRUE
            /\ startpc' = "openStream"
            /\ UNCHANGED <<fatal, wg>>
       ELSE /\ fatal' = ErrReconnect
            /\ startpc' = "select"
            /\ UNCHANGED <<smuW, wg>>
    /\ UNCHANGED <<kind, stream, nstreams, net, topics, smuR, stop, down,
                   recvs, pending, chans, call, closer, events, panicked,
                   nextID, nsent, early, fulfilled, handled,
                   built, subscription, handler, pmu, ev, hist, cursor, cache>>

\* p.reconnect(): WaitForReconnect answers; on false setFatal(ErrReconnect)
\* and return, on true openStream is entered and asks for the write lock
start_reconnect(ok) ==
    /\ Running
    /\ startpc = "reconnect"
    /\ IF ok
       THEN /\ nstreams < MaxStreams
            /\ smuW' = TRUE
            /\ startpc' = "openStream"
            /\ UNCHANGED <<fatal, wg>>
       ELSE /\ fatal' = ErrReconnect
            /\ wg' = wg - 1
            /\ startpc' = "done"
            /\ UNCHANGED smuW
    /\ UNCHANGED <<kind, stream, nstreams, net, topics, smuR, stop, down,
                   recvs, pending, chans, call, closer, events, panicked,
                   nextID, nsent, early, fulfilled, handled,
                   built, subscription, handler, pmu, ev, hist, cursor, cache>>

\* how an openStream call can end: the RPC cannot be opened; the handshake
\* cannot be sent; the first Recv fails (the transport) or returns the status
\* the server rejected the handshake with; the first reply is not a
\* StreamReady; the handshake succeeds
OpenOutcomes ==
    {[how |-> h, ready |-> <<>>] :
        h \in {"open", "send", "recv", "status", "notready"}}
    \cup {[how |-> "ready", ready |-> r] : r \in ReadyTopics}

OpenError(o) ==
    CASE o.how = "open" -> ErrTransport
      [] o.how = "send" -> ErrTransport
      [] o.how = "recv" -> ErrTransport
      [] o.how = "status" -> ErrStatus
      [] o.how = "notready" -> ErrStreamUninitialized
      [] OTHER -> Nil

\* the record of an openStream call on the n-th stream: whether its
\* handshake message was sent and which, the error the call returned and
\* the topics of the StreamReady reply it got (none when it failed)
Opened(o, n) ==
    [sent |-> o.how \notin {"open", "send"},
     msg |-> IF o.how \in {"open", "send"} THEN NoSubscription
             ELSE Handshake(n),
     err |-> OpenError(o),
     ready |-> o.ready]

\* the stream openStream leaves in p.stream, as the transport has it when
\* openStream returns (a Subscriber's deferred cancel() has not run yet when
\* the handshake succeeded: the lock is released first)
OpenedStream(o) ==
    CASE o.how \in {"send", "recv", "status"} ->
            [NewStream("failed") EXCEPT !.ready = FALSE]
      [] o.how = "notready" ->
            [NewStream(IF kind = "sub" THEN "canceled" ELSE "open")
                EXCEPT !.ready = FALSE]
      [] OTHER -> NewStream("open")

\* a faulty reopen step: when openStream fails the loop waits for the
\* connection again instead of setting the fatal error and returning
C28_Mut_start_openStream(o) ==
    /\ Running
    /\ startpc = "openStream"
    /\ smuR = 0
    /\ smuW' = FALSE
    /\ IF o.how = "open"
       THEN /\ stream' = NoStream
            /\ UNCHANGED <<nstreams, net>>
       ELSE /\ stream' = nstreams + 1
            /\ nstreams' = nstreams + 1
            /\ net' = OpenedStream(o)
    /\ IF o.how = "ready"
       THEN /\ topics' = TopicMap(o.ready)
            /\ IF kind = "pub"
               THEN /\ wg' = wg + 1
                    /\ recvs' = Append(recvs, NewReceiver)
                    /\ startpc' = "select"
               ELSE /\ startpc' = "cancel"
                    /\ UNCHANGED <<wg, recvs>>
       ELSE /\ startpc' = "reconnect"
            /\ UNCHANGED <<topics, recvs, wg>>
    /\ hist' = [hist EXCEPT !.opens = Append(@, Opened(o, nstreams + 1))]
    /\ UNCHANGED <<kind, smuR, stop, down, pending, chans, call, closer,
                   events, panicked, nextID, nsent, early, fulfilled, handled,
                   built, subscription, handler, pmu, ev, fatal, cursor, cache>>

\* p.openStream() under the write lock, then either setFatal and return or
\* (Publisher) p.wg.Add(1); go p.receiver()
start_openStream(o) ==
    /\ Running
    /\ startpc = "openStream"
    /\ smuR = 0
    /\ smuW' = FALSE
    /\ IF o.how = "open"
       THEN /\ stream' = NoStream
            /\ UNCHANGED <<nstreams, net>>
       ELSE /\ stream' = nstreams + 1
            /\ nstreams' = nstreams + 1
            /\ net' = OpenedStream(o)
    /\ IF o.how = "ready"
       THEN /\ topics' = TopicMap(o.ready)
            /\ UNCHANGED fatal
            /\ IF kind = "pub"
               THEN /\ wg' = wg + 1
                    /\ recvs' = Append(recvs, NewReceiver)
                    /\ startpc' = "select"
               ELSE /\ startpc' = "cancel"
                    /\ UNCHANGED <<wg, recvs>>
       ELSE /\ fatal' = OpenError(o)
            /\ wg' = wg - 1
            /\ startpc' = "done"
            /\ UNCHANGED <<topics, recvs>>
    /\ hist' = [hist EXCEPT !.opens = Append(@, Opened(o, nstreams + 1))]
    /\ UNCHANGED <<kind, smuR, stop, down, pending, chans, call, closer,
                   events, panicked, nextID, nsent, early, fulfilled, handled,
                   built, subscription, handler, pmu, ev, cursor, cache>>

\* Subscriber.openStream's deferred cancel() of the context the stream was
\* opened with, then c.wg.Add(1); go c.receiver()
start_cancel ==
    /\ Running
    /\ startpc = "cancel"
    /\ net' = [net EXCEPT !.st = IF @ = "open" THEN "canceled" ELSE @]
    /\ wg' = wg + 1
    /\ recvs' = Append(recvs, NewReceiver)
    /\ startpc' = "select"
    /\ UNCHANGED <<kind, stream, nstreams, topics, smuR, smuW, stop, down,
                   fatal, pending, chans, call, closer, events, panicked,
                   nextID, nsent, early, fulfilled, handled,
                   built, subscription, handler, pmu, ev, hist, cursor, cache>>

(***************************************************************************)
(* Construction: NewPublisher and NewSubscriber call openStream once and,  *)
(* when it succeeds, start the start goroutine; when it fails they return  *)
(* the error and no manager.                                               *)
(***************************************************************************)
NoTopics == [n \in {} |-> ZeroULID]

\* the constructor has been called and has not opened a stream yet
InitNew ==
    /\ kind \in {"pub", "sub"}
    /\ stream = NoStream
    /\ nstreams = 0
    /\ net = [NewStream("failed") EXCEPT !.ready = FALSE]
    /\ topics = NoTopics
    /\ smuR = 0
    /\ smuW = FALSE
    /\ stop = 0
    /\ down = 0
    /\ wg = 0
    /\ fatal = Nil
    /\ startpc = "new"
    /\ recvs = <<>>
    /\ pending = [i \in IDs |-> NoChan]
    /\ chans = <<>>
    /\ call = [c \in Callers |-> IdleCall]
    /\ closer = [k \in Closers |-> [pc |-> "idle", ret |-> Nil]]
    /\ events = [buf |-> <<>>, closed |-> FALSE]
    /\ panicked = Nil
    /\ nextID = 1
    /\ nsent = 0
    /\ early = {}
    /\ fulfilled = [i \in IDs |-> 0]
    /\ handled = [i \in IDs |-> 0]
    /\ built = [how |-> "", err |-> Nil]
    /\ subscription \in IF kind = "sub"
                        THEN {NewSubscription(t) : t \in TopicLists}
                        ELSE {NoSubscription}
    /\ hist = NoHistory
    /\ ev = NewEvent
    /\ handler = NewHandler
    /\ pmu = NoHolder
    /\ cursor = [pc |-> "none", stream |-> <<>>, open |-> FALSE, result |-> 0,
                 n |-> 0, got |-> <<>>, log |-> <<>>]
    /\ cache = [topics |-> {}, rpcs |-> <<>>, log |-> <<>>]

\* a faulty constructor that starts the manager whatever openStream returned
C12_Mut_New_openStream(o) ==
    /\ startpc = "new"
    /\ built' = [how |-> o.how, err |-> OpenError(o)]
    /\ hist' = [hist EXCEPT !.opens = Append(@, Opened(o, 1))]
    /\ IF o.how = "open"
       THEN UNCHANGED <<stream, nstreams, net>>
       ELSE /\ stream' = 1
            /\ nstreams' = 1
            /\ net' = OpenedStream(o)
    /\ topics' = IF o.how = "ready" THEN TopicMap(o.ready) ELSE topics
    /\ IF kind = "pub"
       THEN /\ wg' = 1
            /\ startpc' = "begin"
       ELSE /\ startpc' = "newcancel"
            /\ UNCHANGED wg
    /\ UNCHANGED <<kind, smuR, smuW, stop, down, fatal, recvs, pending, chans,
                   call, closer, events, panicked, nextID, nsent, early,
                   fulfilled, handled, ev, subscription, handler, pmu,
                   cursor, cache>>

\* pub.openStream() in the constructor: on an error return nil and the
\* error; else (Publisher) pub.wg.Add(1); go pub.start()
New_openStream(o) ==
    /\ startpc = "new"
    /\ built' = [how |-> o.how, err |-> OpenError(o)]
    /\ hist' = [hist EXCEPT !.opens = Append(@, Opened(o, 1))]
    /\ IF o.how = "ready"
       THEN /\ stream' = 1
            /\ nstreams' = 1
            /\ net' = OpenedStream(o)
            /\ topics' = TopicMap(o.ready)
            /\ IF kind = "pub"
               THEN /\ wg' = 1
                    /\ startpc' = "begin"
               ELSE /\ startpc' = "newcancel"
                    /\ UNCHANGED wg
       ELSE /\ nstreams' = IF o.how = "open" THEN 0 ELSE 1
            /\ startpc' = "failed"
            /\ UNCHANGED <<stream, net, topics, wg>>
    /\ UNCHANGED <<kind, smuR, smuW, stop, down, fatal, recvs, pending, chans,
                   call, closer, events, panicked, nextID, nsent, early,
                   fulfilled, handled, ev, subscription, handler, pmu,
                   cursor, cache>>

\* NewSubscriber after openStream returned nil: its deferred cancel() has
\* run; the events channel is made; sub.wg.Add(1); go sub.start()
New_cancel ==
    /\ startpc = "newcancel"
    /\ net' = [net EXCEPT !.st = IF @ = "open" THEN "canceled" ELSE @]
    /\ wg' = 1
    /\ startpc' = "begin"
    /\ UNCHANGED <<kind, stream, nstreams, topics, smuR, smuW, stop, down,
                   fatal, recvs, pending, chans, call, closer, events,
                   panicked, nextID, nsent, early, fulfilled, handled,
                   built, subscription, handler, pmu, ev, hist, cursor, cache>>

(***************************************************************************)
(* The receiver goroutines (Publisher.receiver, Subscriber.receiver).      *)
(* Recv is called, and blocks, with the read lock held.                    *)
(***************************************************************************)
SetRecv(r, pc, in) == [recvs EXCEPT ![r] = [pc |-> pc, in |-> in]]

\* p.smu.RLock(); if p.stream == nil { panic }; the Recv call begins
receiver_RLock(r) ==
    /\ Running
    /\ recvs[r].pc = "loop"
    /\ CanRLock
    /\ IF stream = NoStream
       THEN /\ panicked' = "receiver running when stream is not open"
            /\ UNCHANGED <<smuR, recvs>>
       ELSE /\ smuR' = smuR + 1
            /\ recvs' = SetRecv(r, "recv", <<>>)
            /\ UNCHANGED panicked
    /\ UNCHANGED <<kind, stream, nstreams, net, topics, smuW, stop, down, wg,
                   fatal, startpc, pending, chans, call, closer, events,
                   nextID, nsent, early, fulfilled, handled,
                   built, subscription, handler, pmu, ev, hist, cursor, cache>>

\* in, err := p.stream.Recv(); p.smu.RUnlock(); on io.EOF return
receiver_Recv(r, res) ==
    /\ Running
    /\ recvs[r].pc = "recv"
    /\ res \in RecvResults
    /\ smuR' = smuR - 1
    /\ IF res.err = Nil
       THEN /\ net' = [net EXCEPT !.out = Tail(@)]
            /\ recvs' = SetRecv(r, "handle", res.msg)
            /\ hist' = IF res.msg.type = "event"
                       THEN [hist EXCEPT !.read = Append(@, res.msg.id)]
                       ELSE hist
            /\ UNCHANGED wg
       ELSE IF res.err = "EOF"
            THEN /\ recvs' = SetRecv(r, "done", <<>>)
                 /\ wg' = wg - 1
                 /\ UNCHANGED <<net, hist>>
            ELSE /\ recvs' = SetRecv(r, "down", <<>>)
                 /\ UNCHANGED <<net, wg, hist>>
    /\ UNCHANGED <<kind, stream, nstreams, topics, smuW, stop, down, fatal,
                   startpc, pending, chans, call, closer, events, panicked,
                   nextID, nsent, early, fulfilled, handled,
                   built, subscription, handler, pmu, ev, cursor, cache>>

\* a faulty receive loop that signals down and goes on receiving
C14_Mut_receiver_down(r) ==
    /\ Running
    /\ recvs[r].pc = "down"
    /\ down = 0
    /\ down' = 1
    /\ recvs' = SetRecv(r, "loop", <<>>)
    /\ UNCHANGED <<kind, stream, nstreams, net, topics, smuR, smuW, stop, wg,
                   fatal, startpc, pending, chans, call, closer, events,
                   panicked, nextID, nsent, early, fulfilled, handled,
                   built, subscription, handler, pmu, ev, hist, cursor, cache>>

\* p.down <- struct{}{}; return (the send blocks while the channel is full)
receiver_down(r) ==
    /\ Running
    /\ recvs[r].pc = "down"
    /\ down = 0
    /\ down' = 1
    /\ wg' = wg - 1
    /\ recvs' = SetRecv(r, "done", <<>>)
    /\ UNCHANGED <<kind, stream, nstreams, net, topics, smuR, smuW, stop,
                   fatal, startpc, pending, chans, call, closer, events,
                   panicked, nextID, nsent, early, fulfilled, handled,
                   built, subscription, handler, pmu, ev, hist, cursor, cache>>

\* a faulty lookup that ignores the id and takes any registered channel
C1_Mut_PendingLookup(id) ==
    IF pending[id] = NoChan THEN NoChan
    ELSE CHOOSE k \in {pending[j] : j \in IDs} \ {NoChan} :
            \A j \in {pending[i] : i \in IDs} \ {NoChan} : k <= j

\* a faulty delete: the id is left in the map after its channel was closed
C4_Mut_PendingDelete(id) == pending

\* pending, ok := p.pending[localID]: the channel registered for the id
PendingLookup(id) == pending[id]

\* delete(p.pending, localID)
PendingDelete(id) == [pending EXCEPT ![id] = NoChan]

\* the Publish call that has sent the event with this id and not yet
\* registered it
Unregistered(id) ==
    \E c \in Callers : call[c].pc = "register" /\ call[c].localID = id

\* a faulty receive loop that returns when it gets a message it has no
\* pending channel for
C31_Mut_receiver_reply(r) ==
    /\ Running
    /\ kind = "pub"
    /\ recvs[r].pc = "handle"
    /\ LET in == recvs[r].in
           k == PendingLookup(in.id)
       IN IF in.type \in {"ack", "nack"} /\ k # NoChan
          THEN /\ ~chans[k].closed
               /\ Len(chans[k].buf) < 1
               /\ chans' = [chans EXCEPT ![k].buf = Append(@, in),
                                         ![k].log = Append(@, in),
                                         ![k].closed = TRUE]
               /\ pending' = PendingDelete(in.id)
               /\ fulfilled' = [fulfilled EXCEPT ![in.id] = @ + 1]
               /\ handled' = [handled EXCEPT ![in.id] = @ + 1]
               /\ recvs' = SetRecv(r, "loop", <<>>)
               /\ UNCHANGED <<early, wg>>
          ELSE /\ recvs' = SetRecv(r, "done", <<>>)
               /\ wg' = wg - 1
               /\ UNCHANGED <<chans, pending, fulfilled, early, handled>>
    /\ UNCHANGED <<kind, stream, nstreams, net, topics, smuR, smuW, stop, down,
                   fatal, startpc, call, closer, events, nextID, nsent,
                   built, subscription, handler, pmu, ev, hist, panicked,
                   cursor, cache>>

\* Publisher.receiver's switch: an ack or a nack is handed to the channel
\* pending for its id (pending <- in; close(pending); delete), anything
\* else is ignored
receiver_reply(r) ==
    /\ Running
    /\ kind = "pub"
    /\ recvs[r].pc = "handle"
    /\ LET in == recvs[r].in
           k == PendingLookup(in.id)
       IN IF in.type \in {"ack", "nack"} /\ k # NoChan
          THEN IF chans[k].closed
               THEN /\ panicked' = "send on closed channel"
                    /\ UNCHANGED <<chans, pending, fulfilled, recvs, early,
                                   handled>>
               ELSE /\ Len(chans[k].buf) < 1
                    /\ chans' = [chans EXCEPT ![k].buf = Append(@, in),
                                              ![k].log = Append(@, in),
                                              ![k].closed = TRUE]
                    /\ pending' = PendingDelete(in.id)
                    /\ fulfilled' = [fulfilled EXCEPT ![in.id] = @ + 1]
                    /\ handled' = [handled EXCEPT ![in.id] = @ + 1]
                    /\ recvs' = SetRecv(r, "loop", <<>>)
                    /\ UNCHANGED <<panicked, early>>
          ELSE /\ early' = IF in.type \in {"ack", "nack"} /\ Unregistered(in.id)
                           THEN early \cup {in.id} ELSE early
               /\ handled' = IF in.type \in {"ack", "nack"}
                             THEN [handled EXCEPT ![in.id] = @ + 1]
                             ELSE handled
               /\ recvs' = SetRecv(r, "loop", <<>>)
               /\ UNCHANGED <<chans, pending, fulfilled, panicked>>
    /\ UNCHANGED <<kind, stream, nstreams, net, topics, smuR, smuW, stop, down,
                   wg, fatal, startpc, call, closer, events, nextID, nsent,
                   built, subscription, handler, pmu, ev, hist, cursor, cache>>

\* a faulty switch that gives an event up when the channel is full
C13_Mut_receiver_event(r) ==
    /\ Running
    /\ kind = "sub"
    /\ recvs[r].pc = "handle"
    /\ LET in == recvs[r].in
       IN IF in.type = "event" /\ Len(events.buf) < EventsCap
          THEN /\ events' = [events EXCEPT !.buf = Append(@, in.id)]
               /\ hist' = [hist EXCEPT !.put = Append(@, in.id)]
          ELSE UNCHANGED <<events, hist>>
    /\ recvs' = SetRecv(r, "loop", <<>>)
    /\ UNCHANGED <<kind, stream, nstreams, net, topics, smuR, smuW, stop, down,
                   wg, fatal, startpc, pending, chans, call, closer, nextID,
                   nsent, early, fulfilled, handled, built, subscription, handler, pmu, ev, panicked,
                   cursor, cache>>

\* Subscriber.receiver's switch: c.events <- msg.Event (blocks while the
\* channel is full), anything else is ignored
receiver_event(r) ==
    /\ Running
    /\ kind = "sub"
    /\ recvs[r].pc = "handle"
    /\ LET in == recvs[r].in
       IN IF in.type = "event"
          THEN IF events.closed
               THEN /\ panicked' = "send on closed channel"
                    /\ UNCHANGED <<events, recvs, hist>>
               ELSE /\ Len(events.buf) < EventsCap
                    /\ events' = [events EXCEPT !.buf = Append(@, in.id)]
                    /\ hist' = [hist EXCEPT !.put = Append(@, in.id)]
                    /\ recvs' = SetRecv(r, "loop", <<>>)
                    /\ UNCHANGED panicked
          ELSE /\ recvs' = SetRecv(r, "loop", <<>>)
               /\ UNCHANGED <<events, panicked, hist>>
    /\ UNCHANGED <<kind, stream, nstreams, net, topics, smuR, smuW, stop, down,
                   wg, fatal, startpc, pending, chans, call, closer, nextID,
                   nsent, early, fulfilled, handled, built, subscription, handler, pmu, ev,
                   cursor, cache>>

(***************************************************************************)
(* The environment: the server behind the current stream, the transport,   *)
(* and the consumer of the events channel.                                 *)
(***************************************************************************)
Live == stream # NoStream /\ net.st = "open" /\ net.ready /\ ~net.eof

\* the server answers an event it received on this stream with an ack or a
\* nack carrying the event's local id; it may answer the same event again
ServerReply(t, id) ==
    /\ Running
    /\ kind = "pub"
    /\ Live
    /\ nsent < MaxReplies
    /\ \E i \in DOMAIN net.got : net.got[i].id = id
    /\ net' = [net EXCEPT !.out = Append(@, [type |-> t, id |-> id])]
    /\ nsent' = nsent + 1
    /\ UNCHANGED <<kind, stream, nstreams, topics, smuR, smuW, stop, down, wg,
                   fatal, startpc, recvs, pending, chans, call, closer,
                   events, panicked, nextID, early, fulfilled, handled,
                   built, subscription, handler, pmu, ev, hist, cursor, cache>>

\* the server delivers the next event of the subscription
ServerEvent ==
    /\ Running
    /\ kind = "sub"
    /\ Live
    /\ nsent < MaxReplies
    /\ net' = [net EXCEPT !.out = Append(@, [type |-> "event", id |-> nsent + 1])]
    /\ nsent' = nsent + 1
    /\ UNCHANGED <<kind, stream, nstreams, topics, smuR, smuW, stop, down, wg,
                   fatal, startpc, recvs, pending, chans, call, closer,
                   events, panicked, nextID, early, fulfilled, handled,
                   built, subscription, handler, pmu, ev, hist, cursor, cache>>

\* the server's handler returns: the client reads io.EOF after what was sent.
\* A server answers a half-close this way; it may also end a stream unasked.
ServerEOF ==
    /\ Running
    /\ stream # NoStream
    /\ net.st = "open"
    /\ ~net.eof
    /\ net' = [net EXCEPT !.eof = TRUE]
    /\ UNCHANGED <<kind, stream, nstreams, topics, smuR, smuW, stop, down, wg,
                   fatal, startpc, recvs, pending, chans, call, closer,
                   events, panicked, nextID, nsent, early, fulfilled, handled,
                   built, subscription, handler, pmu, ev, hist, cursor, cache>>

\* the connection breaks: Recv and Send on the stream fail from now on
StreamFail ==
    /\ Running
    /\ stream # NoStream
    /\ net.st = "open"
    /\ net' = [net EXCEPT !.st = "failed"]
    /\ UNCHANGED <<kind, stream, nstreams, topics, smuR, smuW, stop, down, wg,
                   fatal, startpc, recvs, pending, chans, call, closer,
                   events, panicked, nextID, nsent, early, fulfilled, handled,
                   built, subscription, handler, pmu, ev, hist, cursor, cache>>

\* the application takes the next event from the events channel
Consume ==
    /\ Running
    /\ kind = "sub"
    /\ events.buf # <<>>
    /\ events' = [events EXCEPT !.buf = Tail(@)]
    /\ hist' = [hist EXCEPT !.got = Append(@, Head(events.buf))]
    /\ UNCHANGED <<kind, stream, nstreams, net, topics, smuR, smuW, stop, down,
                   wg, fatal, startpc, recvs, pending, chans, call, closer,
                   panicked, nextID, nsent, early, fulfilled, handled, built, subscription, handler, pmu, ev,
                   cursor, cache>>

(***************************************************************************)
(* Publisher.Publish, called by the application's goroutines.              *)
(***************************************************************************)
\* ulid.Parse of the strings the model uses, computed once
Parsed == [s \in TopicInputs |-> ulidParse(s)]

\* a faulty resolution that consults the topic map before parsing
C10_Mut_resolveTopic(topic) ==
    IF topic \in DOMAIN topics
    THEN [topicID |-> topics[topic], err |-> Nil]
    ELSE IF Parsed[topic].err = Nil
         THEN [topicID |-> Parsed[topic].id, err |-> Nil]
         ELSE [topicID |-> ZeroULID, err |-> ErrResolveTopic]

\* Publisher.resolveTopic: parse the string as a ULID, else look it up in
\* the topic map (under the read lock), else ErrResolveTopic
resolveTopic(topic) ==
    IF Parsed[topic].err = Nil
    THEN [topicID |-> Parsed[topic].id, err |-> Nil]
    ELSE IF topic \in DOMAIN topics
         THEN [topicID |-> topics[topic], err |-> Nil]
         ELSE [topicID |-> ZeroULID, err |-> ErrResolveTopic]

\* resolveTopic takes the read lock only when the string is not a ULID
ResolveNeedsLock(topic) == Parsed[topic].err # Nil

\* env.Wrap(event): proto.Marshal of the event
Wrap(event) == IF event = "event" THEN Nil ELSE ErrMarshal

BeginCall(op) ==
    [IdleCall EXCEPT !.op = op, !.fatalAt = fatal]

\* Publish is called: localID := ulid.Make()
Publish_call(c, topic, event) ==
    /\ Running
    /\ Built
    /\ kind = "pub"
    /\ call[c].pc = "idle"
    /\ c = nextID
    /\ nextID' = nextID + 1
    /\ call' = [call EXCEPT ![c] =
                  [BeginCall("publish") EXCEPT !.pc = "resolve",
                                               !.topic = topic,
                                               !.event = event,
                                               !.localID = nextID]]
    /\ UNCHANGED <<kind, stream, nstreams, net, topics, smuR, smuW, stop, down,
                   wg, fatal, startpc, recvs, pending, chans, closer, events,
                   panicked, nsent, early, fulfilled, handled,
                   built, subscription, handler, pmu, ev, hist, cursor, cache>>

\* a faulty Publish that notes the error of resolveTopic and goes on
C11_Mut_Publish_resolve(c) ==
    /\ Running
    /\ call[c].pc = "resolve"
    /\ ResolveNeedsLock(call[c].topic) => CanRLock
    /\ LET res == resolveTopic(call[c].topic)
       IN call' = [call EXCEPT ![c] =
            [@ EXCEPT !.pc = "lock", !.err = res.err, !.topicID = res.topicID,
                      !.topic = "", !.event = ""]]
    /\ UNCHANGED <<kind, stream, nstreams, net, topics, smuR, smuW, stop, down,
                   wg, fatal, startpc, recvs, pending, chans, closer, events,
                   panicked, nextID, nsent, early, fulfilled, handled,
                   built, subscription, handler, pmu, ev, hist, cursor, cache>>

\* Publish up to the send: resolveTopic, then env.Wrap; an error is returned
Publish_resolve(c) ==
    /\ Running
    /\ call[c].pc = "resolve"
    /\ ResolveNeedsLock(call[c].topic) => CanRLock
    /\ LET res == resolveTopic(call[c].topic)
           err == IF res.err # Nil THEN res.err ELSE Wrap(call[c].event)
       IN call' = [call EXCEPT ![c] =
            IF err # Nil
            THEN [@ EXCEPT !.pc = "done", !.err = err, !.topic = "",
                           !.event = ""]
            ELSE [@ EXCEPT !.pc = "lock", !.topicID = res.topicID,
                           !.topic = "", !.event = ""]]
    /\ UNCHANGED <<kind, stream, nstreams, net, topics, smuR, smuW, stop, down,
                   wg, fatal, startpc, recvs, pending, chans, closer, events,
                   panicked, nextID, nsent, early, fulfilled, handled,
                   built, subscription, handler, pmu, ev, hist, cursor, cache>>

\* p.smu.RLock(); if p.stream == nil { panic }; the Send call begins
Publish_RLock(c) ==
    /\ Running
    /\ call[c].pc = "lock"
    /\ CanRLock
    /\ IF stream = NoStream
       THEN /\ panicked' = "cannot send event when stream is not open"
            /\ UNCHANGED <<smuR, call>>
       ELSE /\ smuR' = smuR + 1
            /\ call' = [call EXCEPT ![c].pc = "send", ![c].topicID = ZeroULID]
            /\ UNCHANGED panicked
    /\ UNCHANGED <<kind, stream, nstreams, net, topics, smuW, stop, down, wg,
                   fatal, startpc, recvs, pending, chans, closer, events,
                   nextID, nsent, early, fulfilled, handled,
                   built, subscription, handler, pmu, ev, hist, cursor, cache>>

\* a faulty Publish that signals down itself when its Send fails
C25_Mut_Publish_Send(c) ==
    /\ Running
    /\ call[c].pc = "send"
    /\ call[c].op = "publish"
    /\ smuR' = smuR - 1
    /\ IF SendOK
       THEN /\ net' = [net EXCEPT !.got =
                         Append(@, [type |-> "event", id |-> call[c].localID])]
            /\ call' = [call EXCEPT ![c].pc = "register", ![c].sent = TRUE]
            /\ UNCHANGED down
       ELSE /\ call' = [call EXCEPT ![c].pc = "done", ![c].err = ErrTransport]
            /\ down' = 1
            /\ UNCHANGED net
    /\ UNCHANGED <<kind, stream, nstreams, topics, smuW, stop, wg,
                   fatal, startpc, recvs, pending, chans, closer, events,
                   panicked, nextID, nsent, early, fulfilled, handled,
                   built, subscription, handler, pmu, ev, hist, cursor, cache>>

\* err = p.stream.Send(event); p.smu.RUnlock(); a send error is returned
Publish_Send(c) ==
    /\ Running
    /\ call[c].pc = "send"
    /\ call[c].op = "publish"
    /\ smuR' = smuR - 1
    /\ IF SendOK
       THEN /\ net' = [net EXCEPT !.got =
                         Append(@, [type |-> "event", id |-> call[c].localID])]
            /\ call' = [call EXCEPT ![c].pc = "register", ![c].sent = TRUE]
       ELSE /\ call' = [call EXCEPT ![c].pc = "done", ![c].err = ErrTransport]
            /\ UNCHANGED net
    /\ UNCHANGED <<kind, stream, nstreams, topics, smuW, stop, down, wg,
                   fatal, startpc, recvs, pending, chans, closer, events,
                   panicked, nextID, nsent, early, fulfilled, handled,
                   built, subscription, handler, pmu, ev, hist, cursor, cache>>

\* reply := make(chan *api.PublisherReply, 1)
NewChan(id) == [buf |-> <<>>, closed |-> FALSE, of |-> id, log |-> <<>>]

\* p.pending[localID] = pubreply(reply), under p.pmu; return reply, nil
Publish_register(c) ==
    /\ Running
    /\ call[c].pc = "register"
    /\ chans' = Append(chans, NewChan(call[c].localID))
    /\ pending' = [pending EXCEPT ![call[c].localID] = Len(chans) + 1]
    /\ call' = [call EXCEPT ![c].pc = "done", ![c].reply = Len(chans) + 1]
    /\ UNCHANGED <<kind, stream, nstreams, net, topics, smuR, smuW, stop, down,
                   wg, fatal, startpc, recvs, closer, events, panicked,
                   nextID, nsent, early, fulfilled, handled,
                   built, subscription, handler, pmu, ev, hist, cursor, cache>>

(***************************************************************************)
(* Subscriber.Ack and Subscriber.Nack, called by the application's         *)
(* goroutines with the id of an event (the n-th call names the n-th).      *)
(***************************************************************************)
\* c.smu.RLock(); if c.stream == nil { panic }; the Send call begins
Ack_RLock(c, op, id) ==
    /\ Running
    /\ Built
    /\ kind = "sub"
    /\ call[c].pc = "idle"
    /\ c = nextID
    /\ CanRLock
    /\ nextID' = nextID + 1
    /\ IF stream = NoStream
       THEN /\ panicked' = "cannot send " \o op \o " when stream is not open"
            /\ UNCHANGED <<smuR, call>>
       ELSE /\ smuR' = smuR + 1
            /\ call' = [call EXCEPT ![c] =
                          [BeginCall(op) EXCEPT !.pc = "send", !.localID = id]]
            /\ UNCHANGED panicked
    /\ UNCHANGED <<kind, stream, nstreams, net, topics, smuW, stop, down, wg,
                   fatal, startpc, recvs, pending, chans, closer, events,
                   nsent, early, fulfilled, handled,
                   built, subscription, handler, pmu, ev, hist, cursor, cache>>

\* a faulty Nack that wraps its argument as an Ack request
C15_Mut_Ack_Send(c) ==
    /\ Running
    /\ call[c].pc = "send"
    /\ call[c].op \in {"ack", "nack"}
    /\ smuR' = smuR - 1
    /\ IF SendOK
       THEN /\ net' = [net EXCEPT !.got =
                         Append(@, [type |-> "ack", id |-> call[c].localID])]
            /\ hist' = [hist EXCEPT !.acks =
                         Append(@, [type |-> "ack", id |-> call[c].localID])]
            /\ call' = [call EXCEPT ![c].pc = "done", ![c].sent = TRUE]
       ELSE /\ call' = [call EXCEPT ![c].pc = "done", ![c].err = ErrTransport]
            /\ UNCHANGED <<net, hist>>
    /\ UNCHANGED <<kind, stream, nstreams, topics, smuW, stop, down, wg,
                   fatal, startpc, recvs, pending, chans, closer, events,
                   panicked, nextID, nsent, early, fulfilled, handled, built, subscription, handler, pmu, ev,
                   cursor, cache>>

\* return c.stream.Send(req), the deferred RUnlock runs
Ack_Send(c) ==
    /\ Running
    /\ call[c].pc = "send"
    /\ call[c].op \in {"ack", "nack"}
    /\ smuR' = smuR - 1
    /\ IF SendOK
       THEN /\ net' = [net EXCEPT !.got =
                         Append(@, [type |-> call[c].op, id |-> call[c].localID])]
            /\ hist' = [hist EXCEPT !.acks =
                         Append(@, [type |-> call[c].op, id |-> call[c].localID])]
            /\ call' = [call EXCEPT ![c].pc = "done", ![c].sent = TRUE]
       ELSE /\ call' = [call EXCEPT ![c].pc = "done", ![c].err = ErrTransport]
            /\ UNCHANGED <<net, hist>>
    /\ UNCHANGED <<kind, stream, nstreams, topics, smuW, stop, down, wg,
                   fatal, startpc, recvs, pending, chans, closer, events,
                   panicked, nextID, nsent, early, fulfilled, handled, built, subscription, handler, pmu, ev,
                   cursor, cache>>

(***************************************************************************)
(* Publisher.Close and Subscriber.Close.                                   *)
(***************************************************************************)
\* p.stop <- struct{}{} (blocks while the channel is full)
Close_stop(k) ==
    /\ Running
    /\ Built
    /\ closer[k].pc = "idle"
    /\ stop = 0
    /\ stop' = 1
    /\ closer' = [closer EXCEPT ![k].pc = "lock"]
    /\ UNCHANGED <<kind, stream, nstreams, net, topics, smuR, smuW, down, wg,
                   fatal, startpc, recvs, pending, chans, call, events,
                   panicked, nextID, nsent, early, fulfilled, handled,
                   built, subscription, handler, pmu, ev, hist, cursor, cache>>

\* p.smu.RLock(); p.stream.CloseSend() begins (a nil stream is dereferenced)
Close_RLock(k) ==
    /\ Running
    /\ closer[k].pc = "lock"
    /\ CanRLock
    /\ IF stream = NoStream
       THEN /\ panicked' = "nil pointer dereference"
            /\ UNCHANGED <<smuR, closer>>
       ELSE /\ smuR' = smuR + 1
            /\ closer' = [closer EXCEPT ![k].pc = "closesend"]
            /\ UNCHANGED panicked
    /\ UNCHANGED <<kind, stream, nstreams, net, topics, smuW, stop, down, wg,
                   fatal, startpc, recvs, pending, chans, call, events,
                   nextID, nsent, early, fulfilled, handled,
                   built, subscription, handler, pmu, ev, hist, cursor, cache>>

\* the errors CloseSend can return: none on a healthy stream
CloseSendErrors == IF net.st = "open" THEN {Nil} ELSE {Nil, ErrTransport}

\* err := p.stream.CloseSend(); p.smu.RUnlock(); if err != nil return err
Close_CloseSend(k, err) ==
    /\ Running
    /\ closer[k].pc = "closesend"
    /\ err \in CloseSendErrors
    /\ smuR' = smuR - 1
    /\ net' = [net EXCEPT !.half = TRUE]
    /\ closer' = [closer EXCEPT ![k] =
                    IF err = Nil THEN [pc |-> "wait", ret |-> Nil]
                    ELSE [pc |-> "done", ret |-> err]]
    /\ UNCHANGED <<kind, stream, nstreams, topics, smuW, stop, down, wg,
                   fatal, startpc, recvs, pending, chans, call, events,
                   panicked, nextID, nsent, early, fulfilled, handled,
                   built, subscription, handler, pmu, ev, hist, cursor, cache>>

\* a faulty Close that does not wait for the loops
C16_Mut_Close_Wait(k) ==
    /\ Running
    /\ closer[k].pc = "wait"
    /\ IF kind = "sub" /\ events.closed
       THEN /\ panicked' = "close of closed channel"
            /\ UNCHANGED <<events, closer>>
       ELSE /\ events' = [events EXCEPT !.closed = (kind = "sub")]
            /\ closer' = [closer EXCEPT ![k].pc = "done"]
            /\ UNCHANGED panicked
    /\ UNCHANGED <<kind, stream, nstreams, net, topics, smuR, smuW, stop, down,
                   wg, fatal, startpc, recvs, pending, chans, call, nextID,
                   nsent, early, fulfilled, handled, built, subscription, handler, pmu, ev, hist,
                   cursor, cache>>

\* p.wg.Wait(); (Subscriber) close(c.events); return nil
Close_Wait(k) ==
    /\ Running
    /\ closer[k].pc = "wait"
    /\ wg = 0
    /\ IF kind = "sub" /\ events.closed
       THEN /\ panicked' = "close of closed channel"
            /\ UNCHANGED <<events, closer>>
       ELSE /\ events' = [events EXCEPT !.closed = (kind = "sub")]
            /\ closer' = [closer EXCEPT ![k].pc = "done"]
            /\ UNCHANGED panicked
    /\ UNCHANGED <<kind, stream, nstreams, net, topics, smuR, smuW, stop, down,
                   wg, fatal, startpc, recvs, pending, chans, call, nextID,
                   nsent, early, fulfilled, handled,
                   built, subscription, handler, pmu, ev, hist, cursor, cache>>

\* p.Err()
Err == fatal

(***************************************************************************)
(* The specification.                                                      *)
(***************************************************************************)
Next ==
    \/ start_begin
    \/ start_down
    \/ start_stop
    \/ \E ok \in BOOLEAN : start_reconnect(ok)
    \/ \E o \in OpenOutcomes : start_openStream(o)
    \/ start_cancel
    \/ \E r \in DOMAIN recvs : receiver_RLock(r)
    \/ \E r \in DOMAIN recvs : \E res \in RecvResults : receiver_Recv(r, res)
    \/ \E r \in DOMAIN recvs : receiver_down(r)
    \/ \E r \in DOMAIN recvs : receiver_reply(r)
    \/ \E r \in DOMAIN recvs : receiver_event(r)
    \/ \E c \in Callers, t \in TopicInputs, e \in EventInputs :
          Publish_call(c, t, e)
    \/ \E c \in Callers : Publish_resolve(c)
    \/ \E c \in Callers : Publish_RLock(c)
    \/ \E c \in Callers : Publish_Send(c)
    \/ \E c \in Callers : Publish_register(c)
    \/ \E c \in Callers, op \in {"ack", "nack"} : Ack_RLock(c, op, c)
    \/ \E c \in Callers : Ack_Send(c)
    \/ \E k \in Closers : Close_stop(k)
    \/ \E k \in Closers : Close_RLock(k)
    \/ \E k \in Closers, err \in {Nil, ErrTransport} : Close_CloseSend(k, err)
    \/ \E k \in Closers : Close_Wait(k)
    \/ \E t \in {"ack", "nack"}, id \in IDs : ServerReply(t, id)
    \/ ServerEvent
    \/ ServerEOF
    \/ StreamFail
    \/ Consume

Spec == Init /\ [][Next]_vars

\* a manager from its construction on, with an application that calls Close
\* and consumes events and makes no other call
NextNew ==
    \/ \E o \in OpenOutcomes : New_openStream(o)
    \/ New_cancel
    \/ start_begin
    \/ start_down
    \/ start_stop
    \/ \E ok \in BOOLEAN : start_reconnect(ok)
    \/ \E o \in OpenOutcomes : start_openStream(o)
    \/ start_cancel
    \/ \E r \in DOMAIN recvs : receiver_RLock(r)
    \/ \E r \in DOMAIN recvs : \E res \in RecvResults : receiver_Recv(r, res)
    \/ \E r \in DOMAIN recvs : receiver_down(r)
    \/ \E r \in DOMAIN recvs : receiver_event(r)
    \/ \E k \in Closers : Close_stop(k)
    \/ \E k \in Closers : Close_RLock(k)
    \/ \E k \in Closers, err \in {Nil, ErrTransport} : Close_CloseSend(k, err)
    \/ \E k \in Closers : Close_Wait(k)
    \/ ServerEvent
    \/ ServerEOF
    \/ StreamFail
    \/ Consume

SpecNew == InitNew /\ [][NextNew]_vars

(***************************************************************************)
(* Properties of the Publisher's reply correlation.                        *)
(***************************************************************************)
\* the calls that returned a reply channel without error
Returned(c) == call[c].pc = "done" /\ call[c].reply # NoChan

\* C1: every message ever put on a reply channel carries the id of the
\* Publish call the channel was returned to; no channel receives a message
\* with another call's id
C1_ReplyOnOwnChannel ==
    /\ \A k \in DOMAIN chans : \A i \in DOMAIN chans[k].log :
          chans[k].log[i].id = chans[k].of
    /\ \A c \in Callers :
          call[c].reply # NoChan => chans[call[c].reply].of = call[c].localID

\* two Publish calls were pending together and each channel got its reply
C1_Witness ==
    \E c1, c2 \in Callers :
        /\ c1 # c2
        /\ Returned(c1) /\ Returned(c2)
        /\ chans[call[c1].reply].log # <<>>
        /\ chans[call[c2].reply].log # <<>>
        /\ chans[call[c1].reply].log[1].id # chans[call[c2].reply].log[1].id

\* C2: no ack or nack for an id is handled by the receive loop while the
\* Publish call that sent the id has not yet put it in the pending map
C2_RegisteredBeforeReply == early = {}

\* C3: when Publish has returned a reply channel and the receive loop has
\* handled the server's ack or nack for that event, received on the stream
\* the event was sent on, the channel holds that reply (nothing else will
\* ever put it there)
C3_ReplyYielded ==
    \A c \in Callers :
        (Returned(c) /\ handled[call[c].localID] > 0)
            => chans[call[c].reply].log # <<>>

\* C4: an id is removed from the pending map at most once, its channel
\* gets at most one message and is closed with it, and a closed channel is
\* never written to, duplicate replies included
C4_AtMostOnce ==
    /\ \A id \in IDs : fulfilled[id] <= 1
    /\ \A k \in DOMAIN chans :
          /\ Len(chans[k].log) <= 1
          /\ chans[k].log # <<>> => chans[k].closed
          /\ chans[k].closed => pending[chans[k].of] # k
    /\ panicked # "send on closed channel"

\* the server answered one id twice and the loop handled both answers
C4_Witness ==
    \E id \in IDs : handled[id] >= 2 /\ fulfilled[id] = 1

\* every goroutine of the manager has returned and no call is in progress
Quiescent ==
    /\ startpc = "done"
    /\ \A r \in DOMAIN recvs : recvs[r].pc = "done"
    /\ \A c \in Callers : call[c].pc \in {"idle", "done"}
    /\ \A k \in Closers : closer[k].pc = "done"

\* C5: once the Publisher is closed and all its loops have exited, no id is
\* left in the pending map and every reply channel handed out is closed
C5_PendingAbandoned ==
    Quiescent =>
        /\ \A id \in IDs : pending[id] = NoChan
        /\ \A k \in DOMAIN chans : chans[k].closed

(***************************************************************************)
(* Properties of the fatal error, of reconnection and of Close.            *)
(***************************************************************************)
\* C6: a Publish, Ack or Nack call that began after the fatal error was
\* set sends nothing on the stream and returns that fatal error
C6_FailFastAfterFatal ==
    \A c \in Callers :
        call[c].fatalAt # Nil =>
            /\ ~call[c].sent
            /\ call[c].pc = "done" => call[c].err = call[c].fatalAt

\* C7: once the fatal error is set the lifecycle loop is over for good: no
\* step waits for a reconnect, asks for the stream lock, opens a stream or
\* starts a receive loop, and the slot keeps the error it holds
C7_FatalIsTerminal ==
    [][fatal # Nil =>
          /\ startpc = "done" /\ startpc' = "done"
          /\ fatal' = fatal
          /\ Err' = Err
          /\ stream' = stream
          /\ nstreams' = nstreams
          /\ smuW' = smuW
          /\ Len(recvs') = Len(recvs)]_vars

\* the manager went on being used after the fatal error was set
C7_Witness ==
    /\ fatal # Nil
    /\ \E c \in Callers : call[c].fatalAt # Nil /\ call[c].pc = "done"

\* C8: after a reconnect of the Publisher the lifecycle loop has installed
\* the new stream and started a receive loop for it, and a Publish sent on
\* the new stream whose reply the receive loop has handled got that reply
\* on its channel
C8_ReconnectTransparent ==
    kind = "pub" /\ nstreams > 1 /\ fatal = Nil =>
        /\ startpc = "select" =>
              stream = nstreams /\ net.ready /\ Len(recvs) = nstreams
        /\ \A c \in Callers :
              ( /\ Returned(c)
                /\ \E i \in DOMAIN net.got : net.got[i].id = call[c].localID
                /\ handled[call[c].localID] > 0 )
                  => chans[call[c].reply].log # <<>>

\* a step of a goroutine Close waits for, of Close itself, of the consumer
\* of the events channel, or the server's end-of-stream after a half-close
CloseProgress ==
    \/ start_begin
    \/ start_down
    \/ start_stop
    \/ \E ok \in BOOLEAN : start_reconnect(ok)
    \/ \E o \in OpenOutcomes : start_openStream(o)
    \/ start_cancel
    \/ \E r \in DOMAIN recvs : receiver_RLock(r)
    \/ \E r \in DOMAIN recvs : \E res \in RecvResults : receiver_Recv(r, res)
    \/ \E r \in DOMAIN recvs : receiver_down(r)
    \/ \E r \in DOMAIN recvs : receiver_reply(r)
    \/ \E r \in DOMAIN recvs : receiver_event(r)
    \/ \E c \in Callers : Publish_Send(c)
    \/ \E c \in Callers : Ack_Send(c)
    \/ \E k \in Closers : Close_stop(k)
    \/ \E k \in Closers : Close_RLock(k)
    \/ \E k \in Closers, err \in {Nil, ErrTransport} : Close_CloseSend(k, err)
    \/ \E k \in Closers : Close_Wait(k)
    \/ Consume
    \/ (net.half /\ ServerEOF)

\* C9: a Close in progress on a manager without fatal error can always go
\* on (it, or a loop it waits for, has a step to take, given that the
\* server ends a half-closed stream), and when Close has returned nil the
\* lifecycle loop and every receive loop have exited
C9_CloseReturns ==
    \A k \in Closers :
        /\ (closer[k].pc = "done" /\ closer[k].ret = Nil) =>
              /\ startpc = "done"
              /\ \A r \in DOMAIN recvs : recvs[r].pc = "done"
        /\ (closer[k].pc \notin {"idle", "done"} /\ fatal = Nil /\ Running) =>
              ENABLED CloseProgress

\* C10: the step of Publish that resolves the topic: a string that parses
\* as a ULID gives the parsed id whatever the topic map holds; otherwise a
\* key of the topic map gives the mapped id; otherwise Publish returns
\* ErrResolveTopic
C10_TopicResolution ==
    [][\A c \in Callers :
          (call[c].pc = "resolve" /\ call'[c].pc # "resolve") =>
              LET t == call[c].topic
                  p == Parsed[t]
              IN IF p.err = Nil
                 THEN /\ call'[c].err # ErrResolveTopic
                      /\ call'[c].pc = "lock" => call'[c].topicID = p.id
                      /\ call[c].event = "event" => call'[c].pc = "lock"
                 ELSE IF t \in DOMAIN topics
                      THEN /\ call'[c].err # ErrResolveTopic
                           /\ call'[c].pc = "lock" =>
                                 call'[c].topicID = topics[t]
                           /\ call[c].event = "event" => call'[c].pc = "lock"
                      ELSE /\ call'[c].pc = "done"
                           /\ call'[c].err = ErrResolveTopic]_vars

\* a string that is a ULID and also a key of the topic map was resolved to
\* the parsed id, not to the id the map gives it
C10_Witness ==
    \E c \in Callers :
        /\ call[c].pc = "lock"
        /\ TopicC \in DOMAIN topics
        /\ call[c].topicID = MustParse(TopicC)
        /\ call[c].topicID # topics[TopicC]

(***************************************************************************)
(* Properties of failing calls and of construction.                        *)
(***************************************************************************)
\* C11: a Publish call that failed with ErrResolveTopic has returned, got
\* no reply channel, sent nothing on any stream and registered nothing in
\* the pending map
C11_UnresolvedSendsNothing ==
    \A c \in Callers :
        call[c].err = ErrResolveTopic =>
            /\ call[c].pc = "done"
            /\ call[c].reply = NoChan
            /\ ~call[c].sent
            /\ pending[call[c].localID] = NoChan
            /\ \A k \in DOMAIN chans : chans[k].of # call[c].localID
            /\ \A i \in DOMAIN net.got : net.got[i].id # call[c].localID

\* a Publish failed to resolve its topic while another call's id is pending
C11_Witness ==
    \E c \in Callers, id \in IDs :
        /\ call[c].err = ErrResolveTopic
        /\ call[c].pc = "done"
        /\ pending[id] # NoChan

\* C12: when the first reply of the constructor's handshake is the server's
\* status error or is not a StreamReady, the constructor returns that error
\* (ErrStreamUninitialized for the reply that is not a StreamReady) and no
\* manager: the start goroutine and the receive loops never run, and no
\* second stream is opened
C12_FailedConstruction ==
    built.how \in {"status", "notready"} =>
        /\ built.err = (IF built.how = "status" THEN ErrStatus
                        ELSE ErrStreamUninitialized)
        /\ startpc = "failed"
        /\ recvs = <<>>
        /\ wg = 0
        /\ nstreams = 1
        /\ fatal = Nil
        /\ \A k \in Closers : closer[k].pc = "idle"

\* a Subscriber's construction failed on a reply that is not a StreamReady
C12_Witness ==
    /\ kind = "sub"
    /\ built.how = "notready"
    /\ built.err = ErrStreamUninitialized
    /\ startpc = "failed"

(***************************************************************************)
(* Properties of the Subscriber's events channel and of Ack and Nack.      *)
(***************************************************************************)
\* the receive loops that hold an event they have read and not yet delivered
InHand ==
    {r \in DOMAIN recvs : recvs[r].pc = "handle" /\ recvs[r].in.type = "event"}

C14_EventsInOrder ==
    /\ Len(hist.put) <= Len(hist.read)
    /\ \A i \in DOMAIN hist.put : hist.put[i] = hist.read[i]
    /\ \A i, j \in DOMAIN hist.put : i # j => hist.put[i] # hist.put[j]
    /\ hist.got \o events.buf = hist.put

\* the consumer has taken two events, in the order the server sent them
C14_Witness == Len(hist.got) = 2 /\ hist.got = hist.read

\* the Ack and Nack calls that returned nil
AckedOK == {c \in Callers : /\ call[c].op \in {"ack", "nack"}
                            /\ call[c].pc = "done"
                            /\ call[c].err = Nil}

\* C15: the broker has got, for every Ack or Nack call that returned nil,
\* exactly one message with the call's id, of the call's kind, and no
\* message else
C15_OneMessagePerAck ==
    /\ Len(hist.acks) = Cardinality(AckedOK)
    /\ \A c \in AckedOK :
          /\ Cardinality({i \in DOMAIN hist.acks :
                             hist.acks[i].id = call[c].localID}) = 1
          /\ \A i \in DOMAIN hist.acks :
                hist.acks[i].id = call[c].localID
                    => hist.acks[i].type = call[c].op
    /\ \A c \in Callers :
          (call[c].pc = "done" /\ call[c].err # Nil /\ kind = "sub") =>
              \A i \in DOMAIN hist.acks : hist.acks[i].id # call[c].localID

\* an Ack and a Nack both returned nil
C15_Witness ==
    \E c1, c2 \in AckedOK : call[c1].op = "ack" /\ call[c2].op = "nack"

\* C16: when Subscriber.Close has returned nil the events channel is
\* closed, and once it is closed no receive loop is running and none has
\* sent on it
C16_EventsClosed ==
    kind = "sub" =>
        /\ \A k \in Closers :
              (closer[k].pc = "done" /\ closer[k].ret = Nil) => events.closed
        /\ events.closed => \A r \in DOMAIN recvs : recvs[r].pc = "done"
        /\ panicked # "send on closed channel"

\* Close returned nil on a Subscriber that had delivered an event: the
\* channel is closed
C16_Witness ==
    /\ kind = "sub"
    /\ \E k \in Closers : closer[k].pc = "done" /\ closer[k].ret = Nil
    /\ events.closed
    /\ hist.put # <<>>

(***************************************************************************)
(* The Event: its lifecycle state, Ack and Nack through the Acknowledger   *)
(* it holds, Acked and Nacked polling the reply channel of its publish.    *)
(* The Acknowledger and the publisher are taken at their interfaces: an    *)
(* Ack or Nack of the Acknowledger returns nil or an error, a publish      *)
(* returns a reply channel or an error, and the reply channel gets at most *)
(* one reply.                                                              *)
(***************************************************************************)
\* e.state is one of initialized, published, subscription, query, acked,
\* nacked; e.pub is "nil", "empty" (open, no reply), "ack" or "nack" (the
\* reply is on the channel, closed behind it) or "closed" (the reply was
\* read)

\* nothing runs after a panic of the goroutine that called the event
EventRunning == ev.last.ret # "panic"

\* fromPB: ErrOverwrite unless the event is initialized, else the event
\* takes the wrapper's data and the given state
fromPB(e, state) ==
    IF e.state # "initialized" THEN e ELSE [e EXCEPT !.state = state]

\* Subscription.eventHandler: event := &Event{}; fromPB(wrapper,
\* subscription); event.sub = c.stream; out <- event
eventHandler ==
    /\ EventRunning
    /\ ev = NewEvent
    /\ ev' = [fromPB(ev, "subscription") EXCEPT
                    !.sub = TRUE, !.origin = "subscription"]
    /\ UNCHANGED <<kind, stream, nstreams, net, topics, smuR, smuW, stop, down,
                   wg, fatal, startpc, recvs, pending, chans, call, closer,
                   events, panicked, nextID, nsent, early, fulfilled, handled,
                   built, subscription, handler, pmu, hist, cursor, cache>>

\* NewIncomingEvent(e, sub): &Event{sub: sub}; fromPB(e, subscription); sub
\* may be nil
NewIncomingEvent(sub) ==
    /\ EventRunning
    /\ ev = NewEvent
    /\ ev' = [fromPB([ev EXCEPT !.sub = sub], "subscription") EXCEPT
                    !.origin = "subscription"]
    /\ UNCHANGED <<kind, stream, nstreams, net, topics, smuR, smuW, stop, down,
                   wg, fatal, startpc, recvs, pending, chans, call, closer,
                   events, panicked, nextID, nsent, early, fulfilled, handled,
                   built, subscription, handler, pmu, hist, cursor, cache>>

\* NewOutgoingEvent(e, pub): &Event{pub: pub}; fromPB(e, published)
NewOutgoingEvent(pub) ==
    /\ EventRunning
    /\ ev = NewEvent
    /\ ev' = fromPB([ev EXCEPT !.pub = pub], "published")
    /\ UNCHANGED <<kind, stream, nstreams, net, topics, smuR, smuW, stop, down,
                   wg, fatal, startpc, recvs, pending, chans, call, closer,
                   events, panicked, nextID, nsent, early, fulfilled, handled,
                   built, subscription, handler, pmu, hist, cursor, cache>>

\* QueryCursor.read: event = &Event{}; event.fromPB(wrapper, query)
QueryCursor_read ==
    /\ EventRunning
    /\ ev = NewEvent
    /\ ev' = [fromPB(ev, "query") EXCEPT !.origin = "query"]
    /\ UNCHANGED <<kind, stream, nstreams, net, topics, smuR, smuW, stop, down,
                   wg, fatal, startpc, recvs, pending, chans, call, closer,
                   events, panicked, nextID, nsent, early, fulfilled, handled,
                   built, subscription, handler, pmu, hist, cursor, cache>>

\* Client.Publish, for one event: event.info, event.pub, err =
\* c.pub.Publish(...); on an error return it, else event.state = published.
\* The state is written whatever it was, without the event's mutex.
Client_Publish(ok) ==
    /\ EventRunning
    /\ ev' = IF ok
                THEN [ev EXCEPT !.pub = "empty", !.state = "published"]
                ELSE [ev EXCEPT !.pub = "nil"]
    /\ UNCHANGED <<kind, stream, nstreams, net, topics, smuR, smuW, stop, down,
                   wg, fatal, startpc, recvs, pending, chans, call, closer,
                   events, panicked, nextID, nsent, early, fulfilled, handled,
                   built, subscription, handler, pmu, hist, cursor, cache>>

\* the publisher's receive loop puts the server's Ack or Nack on the reply
\* channel of the publish and closes the channel
pubreply(t) ==
    /\ EventRunning
    /\ ev.pub = "empty"
    /\ ev' = [ev EXCEPT !.pub = t]
    /\ UNCHANGED <<kind, stream, nstreams, net, topics, smuR, smuW, stop, down,
                   wg, fatal, startpc, recvs, pending, chans, call, closer,
                   events, panicked, nextID, nsent, early, fulfilled, handled,
                   built, subscription, handler, pmu, hist, cursor, cache>>

\* checkpub: a receive on e.pub that does not wait. An Ack moves the event
\* to acked, a Nack to nacked with its NackError; nothing is done when the
\* channel is nil or has no reply; the receive on a closed channel yields a
\* nil reply, whose Embed the switch dereferences
checkpub(e) ==
    CASE e.pub = "ack"    -> [e EXCEPT !.state = "acked", !.pub = "closed"]
      [] e.pub = "nack"   -> [e EXCEPT !.state = "nacked", !.err = NackError,
                                        !.pub = "closed"]
      [] e.pub = "closed" -> [e EXCEPT !.last.ret = "panic"]
      [] OTHER            -> e

\* Event.Acked (op "acked") and Event.Nacked (op "nacked"): under the mutex,
\* checkpub when the state is published; they return the state's comparison
\* and e.err
Poll(e, op) ==
    LET f == IF e.state = "published" THEN checkpub(e) ELSE e
    IN IF f.last.ret = "panic" THEN f
       ELSE [f EXCEPT !.poll = [seq |-> 1 - e.poll.seq, op |-> op,
                                ret |-> f.state = op],
                      !.polled = IF f.state = op THEN @ \cup {op} ELSE @]

Event_Acked ==
    /\ EventRunning
    /\ ev' = Poll(ev, "acked")
    /\ UNCHANGED <<kind, stream, nstreams, net, topics, smuR, smuW, stop, down,
                   wg, fatal, startpc, recvs, pending, chans, call, closer,
                   events, panicked, nextID, nsent, early, fulfilled, handled,
                   built, subscription, handler, pmu, hist, cursor, cache>>

Event_Nacked ==
    /\ EventRunning
    /\ ev' = Poll(ev, "nacked")
    /\ UNCHANGED <<kind, stream, nstreams, net, topics, smuR, smuW, stop, down,
                   wg, fatal, startpc, recvs, pending, chans, call, closer,
                   events, panicked, nextID, nsent, early, fulfilled, handled,
                   built, subscription, handler, pmu, hist, cursor, cache>>

\* a faulty switch that lets a published event through to the Acknowledger
C17_Mut_CannotAck(state) == state = "initialized"

\* case initialized, published: return false, ErrCannotAck
CannotAck(state) == state \in {"initialized", "published"}

\* the state of a query result: Ack and Nack are refused as for an event
\* that was not received from a subscription
QueryCannotAck(state) == state = "query"

\* the record of a call of Ack or Nack that returns (ret, err)
Returns(e, op, ret, err) ==
    [seq |-> 1 - e.last.seq, op |-> op, from |-> e.state,
     origin |-> e.origin, hadsub |-> e.sub, ret |-> ret, err |-> err]

\* a faulty Ack and Nack that set the terminal state before the send and
\* keep it when the send fails
C33_Mut_Terminal(e, op, ok) ==
    LET same == IF op = "ack" THEN "acked" ELSE "nacked"
        other == IF op = "ack" THEN "nacked" ELSE "acked"
    IN CASE e.state = same ->
              [e EXCEPT !.last = Returns(e, op, "true", e.err)]
         [] e.state = other ->
              [e EXCEPT !.last = Returns(e, op, "false", e.err)]
         [] CannotAck(e.state) \/ QueryCannotAck(e.state) ->
              [e EXCEPT !.last = Returns(e, op, "false", ErrCannotAck)]
         [] OTHER ->
              IF ~e.sub
              THEN [e EXCEPT !.last = Returns(e, op, "panic", Nil)]
              ELSE IF ok
              THEN [e EXCEPT !.err = Nil, !.state = same,
                             !.sent = Append(@, op),
                             !.term = IF @ = "" THEN op ELSE @,
                             !.last = Returns(e, op, "true", Nil)]
              ELSE [e EXCEPT !.err = ErrTransport, !.state = same,
                             !.last = Returns(e, op, "false", ErrTransport)]

\* Event.Ack (op "ack") and Event.Nack (op "nack"), ok telling whether the
\* Acknowledger's call returns nil: the same terminal state returns (true,
\* e.err), the opposite one (false, e.err), initialized and published (false,
\* ErrCannotAck); else e.err = e.sub.Ack(...), which on an error is returned
\* with false, and else the state is set and (true, nil) returned. The call
\* on a nil Acknowledger is a nil dereference.
Terminal(e, op, ok) ==
    LET same == IF op = "ack" THEN "acked" ELSE "nacked"
        other == IF op = "ack" THEN "nacked" ELSE "acked"
    IN CASE e.state = same ->
              [e EXCEPT !.last = Returns(e, op, "true", e.err)]
         [] e.state = other ->
              [e EXCEPT !.last = Returns(e, op, "false", e.err)]
         [] CannotAck(e.state) \/ QueryCannotAck(e.state) ->
              [e EXCEPT !.last = Returns(e, op, "false", ErrCannotAck)]
         [] OTHER ->
              IF ~e.sub
              THEN [e EXCEPT !.last = Returns(e, op, "panic", Nil)]
              ELSE IF ok
              THEN [e EXCEPT !.err = Nil, !.state = same,
                             !.sent = Append(@, op),
                             !.term = IF @ = "" THEN op ELSE @,
                             !.last = Returns(e, op, "true", Nil)]
              ELSE [e EXCEPT !.err = ErrTransport,
                             !.last = Returns(e, op, "false", ErrTransport)]

Event_Ack(ok) ==
    /\ EventRunning
    /\ ev' = Terminal(ev, "ack", ok)
    /\ UNCHANGED <<kind, stream, nstreams, net, topics, smuR, smuW, stop, down,
                   wg, fatal, startpc, recvs, pending, chans, call, closer,
                   events, panicked, nextID, nsent, early, fulfilled, handled,
                   built, subscription, handler, pmu, hist, cursor, cache>>

Event_Nack(ok) ==
    /\ EventRunning
    /\ ev' = Terminal(ev, "nack", ok)
    /\ UNCHANGED <<kind, stream, nstreams, net, topics, smuR, smuW, stop, down,
                   wg, fatal, startpc, recvs, pending, chans, call, closer,
                   events, panicked, nextID, nsent, early, fulfilled, handled,
                   built, subscription, handler, pmu, hist, cursor, cache>>

\* the application's operations on one event
NextEvent ==
    \/ eventHandler
    \/ \E sub \in BOOLEAN : NewIncomingEvent(sub)
    \/ \E pub \in {"nil", "empty"} : NewOutgoingEvent(pub)
    \/ QueryCursor_read
    \/ \E ok \in BOOLEAN : Client_Publish(ok)
    \/ \E t \in {"ack", "nack"} : pubreply(t)
    \/ Event_Acked
    \/ Event_Nacked
    \/ \E ok \in BOOLEAN : Event_Ack(ok)
    \/ \E ok \in BOOLEAN : Event_Nack(ok)

SpecEvent == Init /\ [][NextEvent]_vars

\* the step is a call of Event.Ack or Event.Nack that has returned or
\* panicked
AckOrNackCalled == ev'.last.seq # ev.last.seq

\* the event was not obtained from a subscription and is a locally created
\* event, a published event whose reply has not been taken, or a query
\* result
NotReceived ==
    /\ ev.origin # "subscription"
    /\ ev.state \in {"initialized", "published", "query"}

Committed == IF ev.term = "ack" THEN "acked" ELSE "nacked"

\* C18: once the first Ack or Nack of a received event has committed, the
\* event stays in that terminal state, and a later call returns true when
\* it repeats the committed operation and false when it is the opposite
\* one, sending nothing upstream
C18_TerminalIdempotent ==
    [][(ev.origin = "subscription" /\ ev.term # "") =>
          /\ ev.state = Committed
          /\ ev'.state = Committed
          /\ ev'.sent = ev.sent
          /\ AckOrNackCalled =>
                ev'.last.ret = (IF ev'.last.op = ev.term THEN "true"
                                                         ELSE "false")]_vars

\* the stage of a lifecycle state
Stage(state) ==
    CASE state = "initialized" -> 0
      [] state \in {"published", "subscription", "query"} -> 1
      [] OTHER -> 2

\* C19: the state of an event moves forward only: a terminal state (acked,
\* nacked) is never left, and the event never enters a state of an earlier
\* stage
C19_ForwardOnly ==
    [][/\ Stage(ev'.state) >= Stage(ev.state)
       /\ ev.state \in {"acked", "nacked"} => ev'.state = ev.state]_vars

\* C20: a call of Ack or Nack on an event with no Acknowledger returns
\* false and an error: it does not panic and does not return true
C20_NoAcknowledgerIsError ==
    (ev.last.op # "" /\ ~ev.last.hadsub) =>
        /\ ev.last.ret = "false"
        /\ ev.last.err # Nil

(***************************************************************************)
(* Properties of the stream handle, its lock and the lifecycle loop.       *)
(***************************************************************************)
\* the panics of a reader that found the stream handle nil
NilStreamPanics ==
    {"cannot send event when stream is not open",
     "cannot send ack when stream is not open",
     "cannot send nack when stream is not open",
     "receiver running when stream is not open",
     "nil pointer dereference"}

\* C21: a goroutine that holds the read lock to use the stream handle
\* (Publish, Ack, Nack, Close, a receive loop) has a handle that is not nil
\* and whose stream completed its handshake with a StreamReady reply, and
\* no reader has found the handle nil, also after a failed reopen
C21_ReadersSeeReadyStream ==
    /\ smuR > 0 => (stream # NoStream /\ net.ready)
    /\ panicked \notin NilStreamPanics

\* the callers that are in Send, and the Close callers that are in
\* CloseSend, on the current stream: they hold the read lock, so the handle
\* is the same for all of them
InSend == {c \in Callers : call[c].pc = "send"}
InCloseSend == {k \in Closers : closer[k].pc = "closesend"}

\* C22: at most one Send or CloseSend call is executing on a stream at any
\* time, whatever the number of concurrent Publish, Ack, Nack and Close
\* callers
C22_WritesSerialized ==
    Cardinality(InSend) + Cardinality(InCloseSend) <= 1

(***************************************************************************)
(* Client.Publish: the client opens its Publisher in the first call, with  *)
(* c.openPub.Do(func() { c.pub, err = stream.NewPublisher(...) }), and     *)
(* publishes the events of every call on c.pub.  New_openStream is the     *)
(* constructor run by the first call, which returns its error; when it     *)
(* succeeded the calls go on as Publish_call.                              *)
(***************************************************************************)
\* the events a Client.Publish call is given: none, or one of EventInputs
ClientEvents == EventInputs \cup {"none"}

\* a call after the constructor failed: Do does not run again and leaves err
\* nil, c.pub is nil.  With no event the loop is empty and nil is returned;
\* else c.pub.Publish runs on the nil Publisher, which returns the error of
\* Wrap when the topic parses as a ULID and the event does not marshal, and
\* else dereferences the nil Publisher at p.smu.RLock()
Client_Publish_nil(c, topic, event) ==
    /\ Running
    /\ kind = "pub"
    /\ startpc = "failed"
    /\ call[c].pc = "idle"
    /\ c = nextID
    /\ nextID' = nextID + 1
    /\ IF event = "none"
       THEN /\ call' = [call EXCEPT ![c] =
                          [BeginCall("publish") EXCEPT !.pc = "done"]]
            /\ UNCHANGED panicked
       ELSE IF Parsed[topic].err = Nil /\ Wrap(event) # Nil
            THEN /\ call' = [call EXCEPT ![c] =
                               [BeginCall("publish") EXCEPT
                                   !.pc = "done", !.err = Wrap(event)]]
                 /\ UNCHANGED panicked
            ELSE /\ panicked' = "nil pointer dereference"
                 /\ UNCHANGED call
    /\ UNCHANGED <<kind, stream, nstreams, net, topics, smuR, smuW, stop, down,
                   wg, fatal, startpc, recvs, pending, chans, closer, events,
                   nsent, early, fulfilled, handled, built, hist, ev,
                   subscription, handler, pmu, cursor, cache>>

\* a client from its first Publish call on
NextClient ==
    \/ \E o \in OpenOutcomes : New_openStream(o)
    \/ \E c \in Callers, t \in TopicInputs, e \in ClientEvents :
          Client_Publish_nil(c, t, e)
    \/ start_begin
    \/ start_down
    \/ \E ok \in BOOLEAN : start_reconnect(ok)
    \/ \E o \in OpenOutcomes : start_openStream(o)
    \/ \E r \in DOMAIN recvs : receiver_RLock(r)
    \/ \E r \in DOMAIN recvs : \E res \in RecvResults : receiver_Recv(r, res)
    \/ \E r \in DOMAIN recvs : receiver_down(r)
    \/ \E r \in DOMAIN recvs : receiver_reply(r)
    \/ \E c \in Callers, t \in TopicInputs, e \in EventInputs :
          Publish_call(c, t, e)
    \/ \E c \in Callers : Publish_resolve(c)
    \/ \E c \in Callers : Publish_RLock(c)
    \/ \E c \in Callers : Publish_Send(c)
    \/ \E c \in Callers : Publish_register(c)
    \/ \E t \in {"ack", "nack"}, id \in IDs : ServerReply(t, id)
    \/ ServerEOF
    \/ StreamFail

InitClient == InitNew /\ kind = "pub"

SpecClient == InitClient /\ [][NextClient]_vars

\* C23: when the publish stream could not be opened in the first
\* Client.Publish call, that call has returned an error, every later call
\* that has returned has returned an error, and none has panicked
C23_FailedOpenFailsEveryCall ==
    built.how \notin {"", "ready"} =>
        /\ built.err # Nil
        /\ panicked = Nil
        /\ \A c \in Callers : call[c].pc = "done" => call[c].err # Nil

(***************************************************************************)
(* The Subscription Client.Subscribe returns: the eventHandler goroutine   *)
(* ranges over the Subscriber's events channel and sends each event on C   *)
(* (capacity 1), from which the application takes them.  Subscription.Close *)
(* is Subscriber.Close.                                                    *)
(***************************************************************************)
\* for wrapper := range c.events: the next wrapper is taken, or the loop
\* ends when the channel is closed and empty and the goroutine returns
eventHandler_range ==
    /\ Running
    /\ kind = "sub"
    /\ handler.pc = "range"
    /\ IF events.buf # <<>>
       THEN /\ events' = [events EXCEPT !.buf = Tail(@)]
            /\ handler' = [handler EXCEPT !.pc = "out",
                                          !.hold = <<Head(events.buf)>>]
       ELSE /\ events.closed
            /\ handler' = [handler EXCEPT !.pc = "done"]
            /\ UNCHANGED events
    /\ UNCHANGED <<kind, stream, nstreams, net, topics, smuR, smuW, stop, down,
                   wg, fatal, startpc, recvs, pending, chans, call, closer,
                   panicked, nextID, nsent, early, fulfilled, handled,
                   built, hist, ev, subscription, pmu, cursor, cache>>

\* out <- event (blocks while C is full)
eventHandler_out ==
    /\ Running
    /\ handler.pc = "out"
    /\ Len(handler.C) < 1
    /\ handler' = [handler EXCEPT !.pc = "range", !.hold = <<>>,
                                  !.C = @ \o handler.hold]
    /\ UNCHANGED <<kind, stream, nstreams, net, topics, smuR, smuW, stop, down,
                   wg, fatal, startpc, recvs, pending, chans, call, closer,
                   events, panicked, nextID, nsent, early, fulfilled, handled,
                   built, hist, ev, subscription, pmu, cursor, cache>>

\* the application's for event := range sub.C takes the next event
Subscription_take ==
    /\ Running
    /\ handler.C # <<>>
    /\ handler' = [handler EXCEPT !.C = Tail(@),
                                  !.got = Append(@, Head(handler.C))]
    /\ UNCHANGED <<kind, stream, nstreams, net, topics, smuR, smuW, stop, down,
                   wg, fatal, startpc, recvs, pending, chans, call, closer,
                   events, panicked, nextID, nsent, early, fulfilled, handled,
                   built, hist, ev, subscription, pmu, cursor, cache>>

\* a Subscription from Client.Subscribe on, with an application that ranges
\* over C and calls Close
NextSub ==
    \/ start_begin
    \/ start_down
    \/ start_stop
    \/ \E ok \in BOOLEAN : start_reconnect(ok)
    \/ \E o \in OpenOutcomes : start_openStream(o)
    \/ start_cancel
    \/ \E r \in DOMAIN recvs : receiver_RLock(r)
    \/ \E r \in DOMAIN recvs : \E res \in RecvResults : receiver_Recv(r, res)
    \/ \E r \in DOMAIN recvs : receiver_down(r)
    \/ \E r \in DOMAIN recvs : receiver_event(r)
    \/ eventHandler_range
    \/ eventHandler_out
    \/ Subscription_take
    \/ \E k \in Closers : Close_stop(k)
    \/ \E k \in Closers : Close_RLock(k)
    \/ \E k \in Closers, err \in {Nil, ErrTransport} : Close_CloseSend(k, err)
    \/ \E k \in Closers : Close_Wait(k)
    \/ ServerEvent
    \/ ServerEOF
    \/ StreamFail

InitSub == Init /\ kind = "sub"

SpecSub == InitSub /\ [][NextSub]_vars

\* C24: once Subscription.Close has returned nil and the eventHandler
\* goroutine, the only sender on C, has returned, C is closed: a handler
\* ranging over C is told that no more events will arrive
C24_CClosedAfterClose ==
    (/\ \E k \in Closers : closer[k].pc = "done" /\ closer[k].ret = Nil
     /\ handler.pc = "done")
        => handler.closed

\* the step in which the Send of caller c's Publish, Ack or Nack fails and
\* the call returns
SendFailed(c) ==
    call[c].pc = "send" /\ call'[c].pc = "done" /\ call'[c].err # Nil

\* C25: when the Send of a Publish, Ack or Nack fails the call returns the
\* transport's error; the step raises no down signal, leaves the lifecycle
\* loop, the receive loops, the stream handle and the fatal error as they
\* were, and registers no correlation id
C25_SendFailureOnlyReturned ==
    [][\A c \in Callers : SendFailed(c) =>
          /\ call'[c].err = ErrTransport
          /\ call'[c].reply = NoChan
          /\ down' = down /\ stop' = stop
          /\ startpc' = startpc /\ recvs' = recvs
          /\ stream' = stream /\ nstreams' = nstreams /\ net' = net
          /\ fatal' = fatal
          /\ pending' = pending /\ chans' = chans
          /\ pending[call[c].localID] = NoChan]_vars

\* a Publish returned the transport's error while the lifecycle loop waits
\* with no down signal raised and the first stream still in place
C25_Witness ==
    /\ \E c \in Callers :
          /\ call[c].op = "publish"
          /\ call[c].pc = "done"
          /\ call[c].err = ErrTransport
          /\ pending[call[c].localID] = NoChan
    /\ down = 0
    /\ startpc = "select"
    /\ nstreams = 1

\* the streams on which openStream got its handshake message sent
SentOpens == {i \in DOMAIN hist.opens : hist.opens[i].sent}

\* C26: every handshake a Subscriber sends, at construction and on each
\* reconnect, is the Subscription made at construction: the same client
\* identifier and the same topic list
C26_SameSubscriptionResent ==
    kind = "sub" =>
        \A i \in SentOpens :
            /\ hist.opens[i].msg = subscription
            /\ hist.opens[i].msg.clientID = hist.opens[1].msg.clientID
            /\ hist.opens[i].msg.topics = hist.opens[1].msg.topics

\* a Subscriber sent its handshake on the first stream and again on the
\* stream it reopened after a down signal
C26_Witness ==
    /\ kind = "sub"
    /\ {1, 2} \subseteq SentOpens
    /\ hist.opens[2].msg.topics \in TopicLists

\* the openStream calls that returned nil
ReadyOpens == {i \in DOMAIN hist.opens : hist.opens[i].err = Nil}

\* the topics of the StreamReady reply of the last successful handshake
LastReady ==
    hist.opens[CHOOSE i \in ReadyOpens : \A j \in ReadyOpens : j <= i].ready

\* C27 as stated: after a successful handshake the topic map has exactly
\* the names of that handshake's StreamReady reply, each with the id the
\* reply carries for it
C27_TopicsExactlyReply ==
    ReadyOpens # {} =>
        /\ DOMAIN topics = DOMAIN LastReady
        /\ \A n \in DOMAIN topics : topics[n] = LastReady[n].id

\* C27 (amended): after a successful handshake the topic map has exactly
\* the names of that handshake's StreamReady reply whose id is a well-formed
\* 16-byte id, each with that id; entries of earlier handshakes are gone and
\* the map is never a mixture of two replies
C27_TopicsExactlyValidReply ==
    ReadyOpens # {} =>
        /\ DOMAIN topics = {n \in DOMAIN LastReady : LastReady[n].valid}
        /\ \A n \in DOMAIN topics : topics[n] = LastReady[n].id

\* a reconnect's handshake carried other topics than the one before it: the
\* map has the new id of a name both carry and lost the name only the
\* earlier one carried
C27_Witness ==
    /\ Cardinality(ReadyOpens) >= 2
    /\ \E i \in ReadyOpens :
          /\ hist.opens[i].ready # LastReady
          /\ \E n \in DOMAIN hist.opens[i].ready : n \notin DOMAIN LastReady
          /\ \E n \in DOMAIN hist.opens[i].ready \cap DOMAIN topics :
                topics[n] # hist.opens[i].ready[n].id

\* the error the last openStream call returned, after the step
LastOpenErr == hist'.opens[Len(hist'.opens)].err

\* C28: the step that ends the wait for the connection either enters
\* openStream or sets the fatal error to ErrReconnect and ends the lifecycle
\* loop; the step that ends the reopening either starts on the new stream
\* or sets the fatal error to the error openStream returned and ends the
\* loop; neither failure starts a receive loop or opens another stream, and
\* the fatal error is set by no other step
C28_ReconnectFailureIsFatal ==
    [][/\ (startpc = "reconnect" /\ startpc' # "reconnect") =>
              \/ startpc' = "openStream" /\ fatal' = fatal
              \/ /\ fatal' = ErrReconnect
                 /\ startpc' = "done"
                 /\ Len(recvs') = Len(recvs)
                 /\ stream' = stream /\ nstreams' = nstreams
                 /\ smuW' = smuW
                 /\ hist'.opens = hist.opens
       /\ (startpc = "openStream" /\ startpc' # "openStream") =>
              /\ Len(hist'.opens) = Len(hist.opens) + 1
              /\ IF LastOpenErr = Nil
                 THEN fatal' = fatal /\ startpc' \in {"select", "cancel"}
                 ELSE /\ fatal' = LastOpenErr
                      /\ startpc' = "done"
                      /\ Len(recvs') = Len(recvs)
       /\ fatal' # fatal =>
              fatal = Nil /\ startpc \in {"reconnect", "openStream"}
       /\ startpc = "done" => startpc' = "done" /\ Len(recvs') = Len(recvs)]_vars

\* after a down signal the connection came back but the handshake on the
\* reopened stream was not answered with StreamReady: the fatal error is
\* that failure, the loop is over and only the first receive loop was ever
\* started
C28_Witness ==
    /\ fatal = ErrStreamUninitialized
    /\ startpc = "done"
    /\ Len(hist.opens) = 2
    /\ hist.opens[2].err = ErrStreamUninitialized
    /\ Len(recvs) = 1

(***************************************************************************)
(* The Publisher with the pending map's lock p.pmu made explicit: Publish  *)
(* and the receive loop take it in a step of its own, after they released  *)
(* the read lock of p.smu, and release it when they are done with the map. *)
(***************************************************************************)
PublishHolder(c) == <<"publish", c>>
ReceiverHolder(r) == <<"receiver", r>>

\* a faulty Publish that takes p.pmu while its Send still holds the read
\* lock of p.smu
C29_Mut_Publish_pmuLock(c) ==
    /\ Running
    /\ call[c].pc = "send"
    /\ call[c].op = "publish"
    /\ SendOK
    /\ pmu = NoHolder
    /\ pmu' = PublishHolder(c)
    /\ net' = [net EXCEPT !.got =
                 Append(@, [type |-> "event", id |-> call[c].localID])]
    /\ call' = [call EXCEPT ![c].pc = "locked", ![c].sent = TRUE]
    /\ UNCHANGED <<kind, stream, nstreams, topics, smuR, smuW, stop, down,
                   wg, fatal, startpc, recvs, pending, chans, closer, events,
                   panicked, nextID, nsent, early, fulfilled, handled, built,
                   subscription, handler, ev, hist, cursor, cache>>

\* reply := make(chan *api.PublisherReply, 1); p.pmu.Lock()
Publish_pmuLock(c) ==
    /\ Running
    /\ call[c].pc = "register"
    /\ pmu = NoHolder
    /\ pmu' = PublishHolder(c)
    /\ call' = [call EXCEPT ![c].pc = "locked"]
    /\ UNCHANGED <<kind, stream, nstreams, net, topics, smuR, smuW, stop, down,
                   wg, fatal, startpc, recvs, pending, chans, closer, events,
                   panicked, nextID, nsent, early, fulfilled, handled, built,
                   subscription, handler, ev, hist, cursor, cache>>

\* p.pending[localID] = pubreply(reply); p.pmu.Unlock(); return reply, nil
Publish_pmuUnlock(c) ==
    /\ Running
    /\ call[c].pc = "locked"
    /\ pmu = PublishHolder(c)
    /\ pmu' = NoHolder
    /\ chans' = Append(chans, NewChan(call[c].localID))
    /\ pending' = [pending EXCEPT ![call[c].localID] = Len(chans) + 1]
    /\ call' = [call EXCEPT ![c].pc = "done", ![c].reply = Len(chans) + 1]
    /\ UNCHANGED <<kind, stream, nstreams, net, topics, smuR, smuW, stop, down,
                   wg, fatal, startpc, recvs, closer, events, panicked,
                   nextID, nsent, early, fulfilled, handled, built,
                   subscription, handler, ev, hist, cursor, cache>>

\* receiver's case for an ack or a nack: the id is unmarshalled;
\* p.pmu.Lock()
receiver_pmuLock(r) ==
    /\ Running
    /\ recvs[r].pc = "handle"
    /\ recvs[r].in.type \in {"ack", "nack"}
    /\ pmu = NoHolder
    /\ pmu' = ReceiverHolder(r)
    /\ recvs' = SetRecv(r, "locked", recvs[r].in)
    /\ UNCHANGED <<kind, stream, nstreams, net, topics, smuR, smuW, stop, down,
                   wg, fatal, startpc, pending, chans, call, closer, events,
                   panicked, nextID, nsent, early, fulfilled, handled, built,
                   subscription, handler, ev, hist, cursor, cache>>

\* if pending, ok := p.pending[localID]; ok { pending <- in; close(pending);
\* delete(p.pending, localID) }; p.pmu.Unlock()
receiver_pmuUnlock(r) ==
    /\ Running
    /\ recvs[r].pc = "locked"
    /\ pmu = ReceiverHolder(r)
    /\ LET in == recvs[r].in
           k == PendingLookup(in.id)
       IN IF k # NoChan
          THEN IF chans[k].closed
               THEN /\ panicked' = "send on closed channel"
                    /\ UNCHANGED <<chans, pending, fulfilled, recvs, early,
                                   handled, pmu>>
               ELSE /\ Len(chans[k].buf) < 1
                    /\ chans' = [chans EXCEPT ![k].buf = Append(@, in),
                                              ![k].log = Append(@, in),
                                              ![k].closed = TRUE]
                    /\ pending' = PendingDelete(in.id)
                    /\ fulfilled' = [fulfilled EXCEPT ![in.id] = @ + 1]
                    /\ handled' = [handled EXCEPT ![in.id] = @ + 1]
                    /\ recvs' = SetRecv(r, "loop", <<>>)
                    /\ pmu' = NoHolder
                    /\ UNCHANGED <<panicked, early>>
          ELSE /\ early' = IF Unregistered(in.id)
                           THEN early \cup {in.id} ELSE early
               /\ handled' = [handled EXCEPT ![in.id] = @ + 1]
               /\ recvs' = SetRecv(r, "loop", <<>>)
               /\ pmu' = NoHolder
               /\ UNCHANGED <<chans, pending, fulfilled, panicked>>
    /\ UNCHANGED <<kind, stream, nstreams, net, topics, smuR, smuW, stop, down,
                   wg, fatal, startpc, call, closer, events, nextID, nsent,
                   built, subscription, handler, ev, hist, cursor, cache>>

\* a Publisher with its Publish callers, its receive loops and its
\* lifecycle loop
NextLock ==
    \/ start_begin
    \/ start_down
    \/ \E ok \in BOOLEAN : start_reconnect(ok)
    \/ \E o \in OpenOutcomes : start_openStream(o)
    \/ \E r \in DOMAIN recvs : receiver_RLock(r)
    \/ \E r \in DOMAIN recvs : \E res \in RecvResults : receiver_Recv(r, res)
    \/ \E r \in DOMAIN recvs : receiver_down(r)
    \/ \E r \in DOMAIN recvs : receiver_pmuLock(r)
    \/ \E r \in DOMAIN recvs : receiver_pmuUnlock(r)
    \/ \E c \in Callers, t \in TopicInputs, e \in EventInputs :
          Publish_call(c, t, e)
    \/ \E c \in Callers : Publish_resolve(c)
    \/ \E c \in Callers : Publish_RLock(c)
    \/ \E c \in Callers : Publish_Send(c)
    \/ \E c \in Callers : Publish_pmuLock(c)
    \/ \E c \in Callers : Publish_pmuUnlock(c)
    \/ \E t \in {"ack", "nack"}, id \in IDs : ServerReply(t, id)
    \/ ServerEOF
    \/ StreamFail

InitLock == Init /\ kind = "pub"

SpecLock == InitLock /\ [][NextLock]_vars

\* the receive loops that hold the read lock of p.smu: they are in Recv
InRecv == {r \in DOMAIN recvs : recvs[r].pc = "recv"}

\* the goroutines that wait for p.pmu
PmuWaiters ==
    {PublishHolder(c) : c \in {d \in Callers : call[d].pc = "register"}}
    \cup {ReceiverHolder(r) :
             r \in {q \in DOMAIN recvs : recvs[q].pc = "handle"}}

\* the goroutine that holds p.pmu is where the code holds it
PmuHeldInPlace ==
    /\ \A c \in Callers : call[c].pc = "locked" <=> pmu = PublishHolder(c)
    /\ \A r \in DOMAIN recvs :
          recvs[r].pc = "locked" <=> pmu = ReceiverHolder(r)

\* C29: the read locks of p.smu that are held are those of the Publish
\* callers in Send and of the receive loops in Recv, and the goroutine that
\* holds p.pmu is past its RUnlock, so no goroutine holds both; p.pmu is
\* taken only by a goroutine that took and released p.smu before; and the
\* locks never deadlock: while the process runs the holder of p.pmu can
\* always release it, and when openStream waits for the write lock no
\* receive loop is in Recv, every Publish in Send can finish and openStream
\* goes on as soon as the readers are gone
C29_NoLockNesting ==
    /\ smuR = Cardinality(InSend) + Cardinality(InRecv)
    /\ PmuHeldInPlace
    /\ (Running /\ pmu # NoHolder) =>
          \/ \E c \in Callers : ENABLED Publish_pmuUnlock(c)
          \/ \E r \in DOMAIN recvs : ENABLED receiver_pmuUnlock(r)
    /\ (Running /\ smuW) =>
          /\ InRecv = {}
          /\ \A c \in InSend : ENABLED Publish_Send(c)
          /\ smuR = 0 => ENABLED (\E o \in OpenOutcomes : start_openStream(o))

\* a Publish holds p.pmu to register its id while the receive loop waits
\* for p.pmu with a reply in hand and another Publish is in Send with the
\* read lock of p.smu
C29_Witness ==
    /\ \E c \in Callers : pmu = PublishHolder(c)
    /\ ReceiverHolder(1) \in PmuWaiters
    /\ InSend # {}
    /\ smuR = 1

\* the receive loops that have not returned
ActiveReceivers == {r \in DOMAIN recvs : recvs[r].pc # "done"}

\* C30: at most one receive loop has not returned, the down channel holds
\* at most one signal, and a receive loop that is about to signal down
\* finds the channel empty: its send does not block
C30_OneReceiveLoop ==
    /\ Cardinality(ActiveReceivers) <= 1
    /\ down <= 1
    /\ \A r \in DOMAIN recvs :
          recvs[r].pc = "down" => down = 0 /\ (Running => ENABLED receiver_down(r))

\* the receive loop of the first stream has signalled down and returned,
\* the lifecycle loop has reopened the stream and started a second receive
\* loop, whose Recv failed too: it is about to signal down
C30_Witness ==
    /\ Len(recvs) = 2
    /\ recvs[1].pc = "done"
    /\ recvs[2].pc = "down"
    /\ down = 0

(***************************************************************************)
(* The Publisher with a server that also sends CloseStream and messages    *)
(* of other types (for which the id of the message means nothing).         *)
(***************************************************************************)
\* the types of api.PublisherReply the receive loop switches on
ReplyTypes == {"ack", "nack", "close", "other"}

NextReply ==
    \/ start_begin
    \/ start_down
    \/ \E ok \in BOOLEAN : start_reconnect(ok)
    \/ \E o \in OpenOutcomes : start_openStream(o)
    \/ \E r \in DOMAIN recvs : receiver_RLock(r)
    \/ \E r \in DOMAIN recvs : \E res \in RecvResults : receiver_Recv(r, res)
    \/ \E r \in DOMAIN recvs : receiver_down(r)
    \/ \E r \in DOMAIN recvs : receiver_reply(r)
    \/ \E c \in Callers, t \in TopicInputs, e \in EventInputs :
          Publish_call(c, t, e)
    \/ \E c \in Callers : Publish_resolve(c)
    \/ \E c \in Callers : Publish_RLock(c)
    \/ \E c \in Callers : Publish_Send(c)
    \/ \E c \in Callers : Publish_register(c)
    \/ \E t \in ReplyTypes, id \in IDs : ServerReply(t, id)
    \/ ServerEOF
    \/ StreamFail

SpecReply == InitLock /\ [][NextReply]_vars

Polled == ev'.poll.seq # ev.poll.seq

\* C32: on an event the application created and published, a call of
\* Acked or Nacked can always be made and returns; Acked and Nacked have
\* never both returned true; and the one that has returned true returns
\* true on every later call
C32_PollsStable ==
    [][ev.origin = "local" =>
          /\ EventRunning => ENABLED Event_Acked /\ ENABLED Event_Nacked
          /\ ev'.polled # {"acked", "nacked"}
          /\ (Polled /\ ev'.poll.op \in ev.polled) => ev'.poll.ret]_vars

\* C33: a call of Ack or Nack on a received event that awaits its decision
\* and has an Acknowledger either sends and commits, or, when the send
\* fails, returns (false, err) with the error of the send, sends nothing
\* and leaves the event awaiting its decision, where the next call is
\* again such a call
C33_FailedSendKeepsAwaiting ==
    [][(AckOrNackCalled /\ ev.state = "subscription" /\ ev.sub) =>
          \/ /\ ev'.last.ret = "true"
             /\ ev'.last.err = Nil
             /\ ev'.sent = Append(ev.sent, ev'.last.op)
             /\ ev'.state \in {"acked", "nacked"}
          \/ /\ ev'.last.ret = "false"
             /\ ev'.last.err = ErrTransport
             /\ ev'.err = ErrTransport
             /\ ev'.sent = ev.sent
             /\ ev'.state = "subscription"
             /\ ev'.term = ev.term]_vars

\* the send of a Nack failed on a received event, which still awaits its
\* decision and has the error of the send
C33_Witness ==
    /\ ev.origin = "subscription"
    /\ ev.state = "subscription"
    /\ ev.last.op = "nack"
    /\ ev.last.from = "subscription"
    /\ ev.last.ret = "false"
    /\ ev.last.err = ErrTransport
    /\ ev.err = ErrTransport
    /\ ev.sent = <<>>

(***************************************************************************)
(* Ack and Nack called on one received event by concurrent goroutines of   *)
(* the application, with an Acknowledger whose sends succeed.  A call      *)
(* takes e.mu, and either returns from its switch or goes on to the send;  *)
(* the send, the state's assignment and the deferred Unlock end the call.  *)
(***************************************************************************)
\* a faulty Ack and Nack that do not take e.mu
C34_Mut_Event_begin(c, op) ==
    /\ EventRunning
    /\ ev.origin = "subscription"
    /\ call[c].pc \in {"idle", "done"}
    /\ nextID <= MaxCalls
    /\ nextID' = nextID + 1
    /\ IF ev.state = "subscription" /\ ev.sub
       THEN /\ call' = [call EXCEPT ![c].pc = "send", ![c].op = op]
            /\ UNCHANGED ev
       ELSE /\ ev' = Terminal(ev, op, TRUE)
            /\ call' = [call EXCEPT ![c].pc = "done", ![c].op = op]
    /\ UNCHANGED <<kind, stream, nstreams, net, topics, smuR, smuW, stop, down,
                   wg, fatal, startpc, recvs, pending, chans, closer, events,
                   panicked, nsent, early, fulfilled, handled, built,
                   subscription, handler, pmu, hist, cursor, cache>>

\* e.mu.Lock(); defer e.mu.Unlock(); switch e.state: a call that does not
\* send returns here
Event_begin(c, op) ==
    /\ EventRunning
    /\ ev.origin = "subscription"
    /\ call[c].pc \in {"idle", "done"}
    /\ nextID <= MaxCalls
    /\ ev.mu = 0
    /\ nextID' = nextID + 1
    /\ IF ev.state = "subscription" /\ ev.sub
       THEN /\ call' = [call EXCEPT ![c].pc = "send", ![c].op = op]
            /\ ev' = [ev EXCEPT !.mu = c]
       ELSE /\ ev' = Terminal(ev, op, TRUE)
            /\ call' = [call EXCEPT ![c].pc = "done", ![c].op = op]
    /\ UNCHANGED <<kind, stream, nstreams, net, topics, smuR, smuW, stop, down,
                   wg, fatal, startpc, recvs, pending, chans, closer, events,
                   panicked, nsent, early, fulfilled, handled, built,
                   subscription, handler, pmu, hist, cursor, cache>>

\* e.err = e.sub.Ack(...), which returns nil; e.state = acked; return true,
\* nil (and the same for Nack)
Event_send(c) ==
    /\ EventRunning
    /\ call[c].pc = "send"
    /\ LET op == call[c].op
       IN ev' = [ev EXCEPT !.err = Nil,
                           !.state = IF op = "ack" THEN "acked" ELSE "nacked",
                           !.sent = Append(@, op),
                           !.term = IF @ = "" THEN op ELSE @,
                           !.last = Returns(ev, op, "true", Nil),
                           !.mu = 0]
    /\ call' = [call EXCEPT ![c].pc = "done"]
    /\ UNCHANGED <<kind, stream, nstreams, net, topics, smuR, smuW, stop, down,
                   wg, fatal, startpc, recvs, pending, chans, closer, events,
                   panicked, nextID, nsent, early, fulfilled, handled, built,
                   subscription, handler, pmu, hist, cursor, cache>>

NextAck ==
    \/ eventHandler
    \/ \E c \in Callers, op \in {"ack", "nack"} : Event_begin(c, op)
    \/ \E c \in Callers : Event_send(c)

SpecAck == Init /\ [][NextAck]_vars

\* C34: however the Ack and Nack calls on a received event interleave, at
\* most one message is sent upstream; a call in its send is the only one,
\* and once a call has returned from its send exactly one message was sent
\* and the event is in the terminal state of that message
C34_OneDecisionSent ==
    /\ Len(ev.sent) <= 1
    /\ Cardinality(InSend) <= 1
    /\ InSend # {} => ev.sent = <<>> /\ ev.state = "subscription"
    /\ (ev.origin = "subscription" /\ nextID > 1 /\ InSend = {}) =>
          /\ Len(ev.sent) = 1
          /\ ev.state = (IF ev.sent[1] = "ack" THEN "acked" ELSE "nacked")

\* a Nack and then two Acks were called on the event: the Nack was sent and
\* the event is nacked
C34_Witness ==
    /\ ev.sent = <<"nack">>
    /\ ev.state = "nacked"
    /\ ev.last.op = "ack"
    /\ ev.last.ret = "false"
    /\ nextID > MaxCalls

(***************************************************************************)
(* The QueryCursor over an EnSQL stream that carries the events 1..n and   *)
(* then ends; an event is its number, 0 is the nil event.  The cursor is   *)
(* used from one goroutine.  cursor.open tells that c.stream is not nil.   *)
(***************************************************************************)
\* QueryCursor.read: ErrCursorClosed when the stream is nil; else the cached
\* result, which is cleared; else the next event of the stream, or, at
\* io.EOF, c.Close() and (nil, nil)
read(c) ==
    IF ~c.open
    THEN [c |-> c, event |-> 0, err |-> "ErrCursorClosed"]
    ELSE IF c.result # 0
    THEN [c |-> [c EXCEPT !.result = 0], event |-> c.result, err |-> Nil]
    ELSE IF c.stream = <<>>
    THEN [c |-> [c EXCEPT !.open = FALSE], event |-> 0, err |-> Nil]
    ELSE [c |-> [c EXCEPT !.stream = Tail(@)], event |-> Head(c.stream),
          err |-> Nil]

\* the loop of FetchMany and FetchAll: read until k events are collected,
\* read returns the nil event (break) or an error (return nil, err)
RECURSIVE fetch(_, _, _)
fetch(c, k, acc) ==
    IF Len(acc) >= k
    THEN [c |-> c, events |-> acc, err |-> Nil]
    ELSE LET r == read(c)
         IN IF r.err # Nil THEN [c |-> r.c, events |-> <<>>, err |-> r.err]
            ELSE IF r.event = 0
            THEN [c |-> r.c, events |-> acc, err |-> Nil]
            ELSE fetch(r.c, k, Append(acc, r.event))

\* NewQueryCursor on a stream that carries n events: cursor.result, err =
\* cursor.FetchOne()
NewQueryCursor(n) ==
    /\ cursor.pc = "none"
    /\ LET r == read([cursor EXCEPT !.stream = [i \in 1..n |-> i],
                                    !.open = TRUE, !.n = n])
       IN cursor' = [r.c EXCEPT !.result = r.event,
                                !.pc = IF r.err = Nil THEN "ready"
                                                      ELSE "failed"]
    /\ UNCHANGED <<kind, stream, nstreams, net, topics, smuR, smuW, stop, down,
                   wg, fatal, startpc, recvs, pending, chans, call, closer,
                   events, panicked, nextID, nsent, early, fulfilled, handled,
                   built, subscription, handler, pmu, ev, hist, cache>>

\* FetchOne returns i.read()
FetchOne ==
    /\ cursor.pc = "ready"
    /\ Len(cursor.log) < MaxCalls
    /\ LET r == read(cursor)
           evs == IF r.event = 0 THEN <<>> ELSE <<r.event>>
       IN cursor' = [r.c EXCEPT
                        !.got = @ \o evs,
                        !.log = Append(@, [op |-> "one", k |-> 1,
                                           events |-> evs, err |-> r.err])]
    /\ UNCHANGED <<kind, stream, nstreams, net, topics, smuR, smuW, stop, down,
                   wg, fatal, startpc, recvs, pending, chans, call, closer,
                   events, panicked, nextID, nsent, early, fulfilled, handled,
                   built, subscription, handler, pmu, ev, hist, cache>>

\* FetchMany(k) for k >= 1
FetchMany(k) ==
    /\ cursor.pc = "ready"
    /\ Len(cursor.log) < MaxCalls
    /\ LET r == fetch(cursor, k, <<>>)
       IN cursor' = [r.c EXCEPT
                        !.got = @ \o r.events,
                        !.log = Append(@, [op |-> "many", k |-> k,
                                           events |-> r.events,
                                           err |-> r.err])]
    /\ UNCHANGED <<kind, stream, nstreams, net, topics, smuR, smuW, stop, down,
                   wg, fatal, startpc, recvs, pending, chans, call, closer,
                   events, panicked, nextID, nsent, early, fulfilled, handled,
                   built, subscription, handler, pmu, ev, hist, cache>>

\* FetchAll: the loop without a count (no stream carries MaxEvents + 1
\* events)
FetchAll ==
    /\ cursor.pc = "ready"
    /\ Len(cursor.log) < MaxCalls
    /\ LET r == fetch(cursor, MaxEvents + 1, <<>>)
       IN cursor' = [r.c EXCEPT
                        !.got = @ \o r.events,
                        !.log = Append(@, [op |-> "all", k |-> MaxEvents + 1,
                                           events |-> r.events,
                                           err |-> r.err])]
    /\ UNCHANGED <<kind, stream, nstreams, net, topics, smuR, smuW, stop, down,
                   wg, fatal, startpc, recvs, pending, chans, call, closer,
                   events, panicked, nextID, nsent, early, fulfilled, handled,
                   built, subscription, handler, pmu, ev, hist, cache>>

\* QueryCursor.Close: nothing when the stream is nil; else CloseSend, which
\* succeeds, and i.stream = nil
QueryCursor_Close ==
    /\ cursor.pc = "ready"
    /\ Len(cursor.log) < MaxCalls
    /\ cursor' = [cursor EXCEPT
                     !.open = FALSE,
                     !.log = Append(@, [op |-> "close", k |-> 0,
                                        events |-> <<>>, err |-> Nil])]
    /\ UNCHANGED <<kind, stream, nstreams, net, topics, smuR, smuW, stop, down,
                   wg, fatal, startpc, recvs, pending, chans, call, closer,
                   events, panicked, nextID, nsent, early, fulfilled, handled,
                   built, subscription, handler, pmu, ev, hist, cache>>

NextCursor ==
    \/ \E n \in 0..MaxEvents : NewQueryCursor(n)
    \/ FetchOne
    \/ \E k \in 1..MaxEvents : FetchMany(k)
    \/ FetchAll
    \/ QueryCursor_Close

SpecCursor == Init /\ [][NextCursor]_vars

\* C35: the fetches of a cursor return the events of the stream in order,
\* each once; a fetch fails only with ErrCursorClosed, and it fails exactly
\* when an earlier call was a Close or a fetch that signalled exhaustion
\* without an error (a nil event, a slice shorter than asked for, the slice
\* of FetchAll); and the fetch that signals exhaustion comes when all the
\* events of the stream have been returned
C35_CursorInOrderThenClosed ==
    LET log == cursor.log
        Exhausted(e) ==
            /\ e.op # "close"
            /\ e.err = Nil
            /\ e.op = "all" \/ Len(e.events) < e.k
        Ends == {j \in DOMAIN log : Exhausted(log[j]) \/ log[j].op = "close"}
    IN /\ cursor.got = [i \in 1..Len(cursor.got) |-> i]
       /\ Len(cursor.got) <= cursor.n
       /\ \A i \in DOMAIN log :
             /\ log[i].err \in {Nil, "ErrCursorClosed"}
             /\ log[i].op # "close" =>
                   (log[i].err = "ErrCursorClosed" <=>
                        \E j \in Ends : j < i)
       /\ (log # <<>> /\ Exhausted(log[Len(log)])) =>
             Len(cursor.got) = cursor.n

(***************************************************************************)
(* The topics.Cache over a client whose TopicID, TopicExists and           *)
(* CreateTopic calls answer as the server decides.  The id the server has  *)
(* for a name is the name with "id:" before it.                            *)
(***************************************************************************)
\* a faulty Get that stores what TopicID returned before it looks at the
\* error
C36_Mut_Cache_Get(topic, reply) ==
    /\ Len(cache.log) < MaxCalls - 1
    /\ IF \E p \in cache.topics : p[1] = topic
       THEN cache' = [cache EXCEPT
                !.log = Append(@, [op |-> "get", topic |-> topic,
                                   err |-> Nil])]
       ELSE cache' = [cache EXCEPT
                !.rpcs = Append(@, <<"TopicID", topic>>),
                !.topics = @ \cup {<<topic, IF reply = "id"
                                            THEN "id:" \o topic ELSE "">>},
                !.log = Append(@, [op |-> "get", topic |-> topic,
                                   err |-> IF reply = "id" THEN Nil
                                           ELSE reply])]
    /\ UNCHANGED <<kind, stream, nstreams, net, topics, smuR, smuW, stop, down,
                   wg, fatal, startpc, recvs, pending, chans, call, closer,
                   events, panicked, nextID, nsent, early, fulfilled, handled,
                   built, subscription, handler, pmu, ev, hist, cursor>>

\* Cache.Get: the cached id, or t.client.TopicID, whose answer is an id, the
\* error that the name is not found (returned as ErrTopicNotFound) or
\* another error; only an id is stored
Cache_Get(topic, reply) ==
    /\ Len(cache.log) < MaxCalls - 1
    /\ IF \E p \in cache.topics : p[1] = topic
       THEN cache' = [cache EXCEPT
                !.log = Append(@, [op |-> "get", topic |-> topic,
                                   err |-> Nil])]
       ELSE cache' = [cache EXCEPT
                !.rpcs = Append(@, <<"TopicID", topic>>),
                !.topics = IF reply = "id"
                           THEN @ \cup {<<topic, "id:" \o topic>>} ELSE @,
                !.log = Append(@, [op |-> "get", topic |-> topic,
                                   err |-> IF reply = "id" THEN Nil
                                           ELSE reply])]
    /\ UNCHANGED <<kind, stream, nstreams, net, topics, smuR, smuW, stop, down,
                   wg, fatal, startpc, recvs, pending, chans, call, closer,
                   events, panicked, nextID, nsent, early, fulfilled, handled,
                   built, subscription, handler, pmu, ev, hist, cursor>>

\* Cache.Exists: true for a cached name, else what t.client.TopicExists
\* returns
Cache_Exists(topic, reply) ==
    /\ Len(cache.log) < MaxCalls - 1
    /\ IF \E p \in cache.topics : p[1] = topic
       THEN cache' = [cache EXCEPT
                !.log = Append(@, [op |-> "exists", topic |-> topic,
                                   err |-> Nil])]
       ELSE cache' = [cache EXCEPT
                !.rpcs = Append(@, <<"TopicExists", topic>>),
                !.log = Append(@, [op |-> "exists", topic |-> topic,
                                   err |-> IF reply = "error" THEN reply
                                           ELSE Nil])]
    /\ UNCHANGED <<kind, stream, nstreams, net, topics, smuR, smuW, stop, down,
                   wg, fatal, startpc, recvs, pending, chans, call, closer,
                   events, panicked, nextID, nsent, early, fulfilled, handled,
                   built, subscription, handler, pmu, ev, hist, cursor>>

\* Cache.Ensure: the cached id, or TopicExists and then CreateTopic (the
\* topic does not exist) or TopicID (it exists); an error of any of them is
\* returned, an id is stored
Cache_Ensure(topic, exists, reply) ==
    /\ Len(cache.log) < MaxCalls - 1
    /\ IF \E p \in cache.topics : p[1] = topic
       THEN cache' = [cache EXCEPT
                !.log = Append(@, [op |-> "ensure", topic |-> topic,
                                   err |-> Nil])]
       ELSE IF exists = "error"
       THEN cache' = [cache EXCEPT
                !.rpcs = Append(@, <<"TopicExists", topic>>),
                !.log = Append(@, [op |-> "ensure", topic |-> topic,
                                   err |-> "error"])]
       ELSE cache' = [cache EXCEPT
                !.rpcs = @ \o <<<<"TopicExists", topic>>,
                                <<IF exists = "true" THEN "TopicID"
                                  ELSE "CreateTopic", topic>>>>,
                !.topics = IF reply = "id"
                           THEN @ \cup {<<topic, "id:" \o topic>>} ELSE @,
                !.log = Append(@, [op |-> "ensure", topic |-> topic,
                                   err |-> IF reply = "id" THEN Nil
                                           ELSE reply])]
    /\ UNCHANGED <<kind, stream, nstreams, net, topics, smuR, smuW, stop, down,
                   wg, fatal, startpc, recvs, pending, chans, call, closer,
                   events, panicked, nextID, nsent, early, fulfilled, handled,
                   built, subscription, handler, pmu, ev, hist, cursor>>

\* Cache.Clear deletes every key
Cache_Clear ==
    /\ Len(cache.log) < MaxCalls - 1
    /\ cache' = [cache EXCEPT
                    !.topics = {},
                    !.log = Append(@, [op |-> "clear", topic |-> "",
                                       err |-> Nil])]
    /\ UNCHANGED <<kind, stream, nstreams, net, topics, smuR, smuW, stop, down,
                   wg, fatal, startpc, recvs, pending, chans, call, closer,
                   events, panicked, nextID, nsent, early, fulfilled, handled,
                   built, subscription, handler, pmu, ev, hist, cursor>>

NextCache ==
    \/ \E t \in {"testing.topics.topicb", "testing.topics.foo"} :
          \/ \E reply \in {"id", "notfound", "error"} : Cache_Get(t, reply)
          \/ \E reply \in {"true", "false", "error"} : Cache_Exists(t, reply)
          \/ \E exists \in {"true", "false", "error"},
                reply \in {"id", "error"} : Cache_Ensure(t, exists, reply)
    \/ Cache_Clear

SpecCache == Init /\ [][NextCache]_vars

\* C36: a Get, Ensure or Exists call for a name that is in the cache makes
\* no remote call; a call that returns an error leaves the cache as it
\* was; and so does every Exists call
C36_CacheSavesCalls ==
    [][Len(cache'.log) > Len(cache.log) =>
          LET e == cache'.log[Len(cache'.log)]
          IN /\ (e.op # "clear" /\ \E p \in cache.topics : p[1] = e.topic) =>
                   /\ cache'.rpcs = cache.rpcs
                   /\ e.err = Nil
             /\ e.err # Nil => cache'.topics = cache.topics
             /\ e.op = "exists" => cache'.topics = cache.topics]_vars

\* a Get stored the id of a name, a Get of another name failed, and an
\* Exists and an Ensure of the first name were answered from the cache: one
\* remote call was made for each name
C36_Witness ==
    /\ Len(cache.log) = 4
    /\ cache.log[1].op = "get" /\ cache.log[1].err = Nil
    /\ cache.log[2].op = "get" /\ cache.log[2].err = "notfound"
    /\ cache.log[3].op = "exists" /\ cache.log[3].topic = cache.log[1].topic
    /\ cache.log[4].op = "ensure" /\ cache.log[4].topic = cache.log[1].topic
    /\ Len(cache.rpcs) = 2
    /\ Cardinality(cache.topics) = 1

\* C37: while the manager is not closed and has no fatal error, a receive
\* loop is running on the current stream or a reconnect is pending: when
\* the lifecycle loop waits in its select with Close never called and Err()
\* nil, a receiver goroutine is alive or a down signal is in the channel
C37_ReaderOrReconnect ==
    (/\ Running
     /\ fatal = Nil
     /\ \A k \in Closers : closer[k].pc = "idle"
     /\ startpc = "select"
     /\ stream # NoStream) =>
        \/ ActiveReceivers # {}
        \/ down = 1

\* C38: the write lock of the stream is requested only when no receive loop
\* holds the read lock in Recv: while openStream waits for the write lock,
\* every reader is a caller in Send, and openStream goes on as soon as the
\* readers are gone, so the callers kept out by the waiting writer never
\* wait for the server
C38_WriterNotBehindRecv ==
    smuW =>
       /\ InRecv = {}
       /\ startpc = "openStream"
       /\ (Running /\ smuR = 0) =>
             ENABLED (\E o \in OpenOutcomes : start_openStream(o))

\* openStream waits for the write lock while a caller holds the read lock
\* in Send, after the receive loop signalled down and returned
C38_Witness ==
    /\ smuW
    /\ smuR > 0
    /\ Running
    /\ recvs # <<>>
    /\ \A r \in DOMAIN recvs : recvs[r].pc = "done"

\* C39: the stream a Subscriber stored after a handshake that succeeded is
\* not ended by the return of openStream: while the lifecycle loop waits in
\* its select the current stream is not canceled by the client, and a
\* receive loop is about to signal down only after the connection failed
C39_StreamSurvivesHandshake ==
    kind = "sub" =>
       /\ (stream # NoStream /\ startpc = "select") => net.st # "canceled"
       /\ \A r \in DOMAIN recvs : recvs[r].pc = "down" => net.st = "failed"

(***************************************************************************)
(* Close called again on a manager whose Close has returned.               *)
(***************************************************************************)
\* a later call of Close by the goroutine whose call returned:
\* p.stop <- struct{}{} (blocks while the channel is full)
Close_again(k) ==
    /\ Running
    /\ closer[k].pc = "done"
    /\ stop = 0
    /\ stop' = 1
    /\ closer' = [closer EXCEPT ![k].pc = "lock"]
    /\ UNCHANGED <<kind, stream, nstreams, net, topics, smuR, smuW, down, wg,
                   fatal, startpc, recvs, pending, chans, call, events,
                   panicked, nextID, nsent, early, fulfilled, handled,
                   built, subscription, handler, pmu, ev, hist, cursor, cache>>

NextClose ==
    \/ start_begin
    \/ start_down
    \/ start_stop
    \/ \E ok \in BOOLEAN : start_reconnect(ok)
    \/ \E o \in OpenOutcomes : start_openStream(o)
    \/ start_cancel
    \/ \E r \in DOMAIN recvs : receiver_RLock(r)
    \/ \E r \in DOMAIN recvs : \E res \in RecvResults : receiver_Recv(r, res)
    \/ \E r \in DOMAIN recvs : receiver_down(r)
    \/ ServerEOF
    \/ StreamFail
    \/ \E k \in Closers : Close_stop(k)
    \/ \E k \in Closers : Close_RLock(k)
    \/ \E k \in Closers : \E err \in CloseSendErrors : Close_CloseSend(k, err)
    \/ \E k \in Closers : Close_Wait(k)
    \/ \E k \in Closers : Close_again(k)

SpecClose == Init /\ [][NextClose]_vars

\* C40: Close may be called again: no call closes the events channel a
\* second time, and after a call returned the stop signal of the next call
\* can be sent or will be taken by the lifecycle loop
C40_CloseAgainSafe ==
    /\ panicked # "close of closed channel"
    /\ \A k \in Closers :
          (Running /\ closer[k].pc = "done") =>
             \/ ENABLED Close_again(k)
             \/ startpc # "done"

=============================================================================
